---- MODULE Spec2Model ----
(***************************************************************************)
(* Workflow engine of AgentLazyX1: the node registry, the workflow         *)
(* definition, executeWorkflow and the recursive executeNodeChain, and the *)
(* execute methods of the shipped node types.                              *)
(***************************************************************************)
EXTENDS Integers, Sequences, FiniteSets, TLC

\* The engine and one call of executeWorkflow.
VARIABLES nodeRegistry, workflow, inputData, execution, pc, outcome,
          currentNode, nodeInstance, nodeCredentials, nodeEnv, nodeInput,
          lastResult, executed, instantiated, inFlight

engineVars == <<nodeRegistry, workflow, inputData, execution, pc, outcome,
                currentNode, nodeInstance, nodeCredentials, nodeEnv, nodeInput,
                lastResult, executed, instantiated, inFlight>>

\* The history of registerNode calls and the outcome of the last lookup.
VARIABLES registrations, resolved

registryVars == <<registrations, resolved>>

\* Two calls of executeWorkflow on one engine: the variables above (all but
\* nodeRegistry) are the locals of the call that is scheduled, parked holds
\* the locals of the call that waits at its await, settled lists what the
\* scheduled call's awaits and constructors have given it.
VARIABLES parked, settled, scheduled

concurrentVars == <<parked, settled, scheduled>>

\* The MCP server: the tool call being handled, the answer of the handler and
\* the agent methods the handler has called for it.
VARIABLES request, reply, agentCalls, serverPc

serverVars == <<request, reply, agentCalls, serverPc>>

\* One call of AndroidReleaseAgent.executeCommand: the promise it returns, the
\* child process, the timer, the two output buffers, and the events that have
\* called resolve, each with the result it passed.
VARIABLES promise, child, timer, output, errorOutput, events

commandVars == <<promise, child, timer, output, errorOutput, events>>

\* One call of AndroidReleaseAgent.buildAndroidRelease: how far it has got, its
\* arguments, the project's files, the steps it has started and ended, and the
\* text it returns.
VARIABLES buildPc, buildInput, files, steps, buildResult

buildVars == <<buildPc, buildInput, files, steps, buildResult>>

\* One call of GoogleDriveAgent.uploadFile: where the call is, its arguments
\* and environment, the folder it uploads to, the requests it has sent to
\* Drive, the folders of the Drive that hold a file of the name, and the
\* text it returns.
VARIABLES drivePc, driveCall, sharedFolderId, driveRequests, driveFolders,
          driveReply

driveVars ==
  <<drivePc, driveCall, sharedFolderId, driveRequests, driveFolders, driveReply>>

vars ==
  <<engineVars, registryVars, concurrentVars, serverVars, commandVars,
    buildVars, driveVars>>

(***************************************************************************)
(* Bounds of the model.                                                    *)
(***************************************************************************)
\* Total number of connection entries of a workflow definition.
MaxEdges == 2
\* Number of execute calls of one run the model follows (a cycle never ends).
MaxSteps == 3
\* Number of registerNode calls made after the constructor's.
MaxRegistrations == 3
\* Number of 'data' events of the child process of one executeCommand call.
MaxChunks == 2
\* Number of items (files, messages) a batch workflow is built for.
MaxItems == 3

(***************************************************************************)
(* Values.                                                                 *)
(***************************************************************************)
\* undefined, for an optional string (NodeExecuteResult.error, execution.error).
Absent == "<undefined>"

\* WorkflowData = Record<string, any>: a function from some keys to values.
Keys == {"ticket"}
Vals == {"v1"}
WorkflowData == UNION {[K -> Vals] : K \in SUBSET Keys}
EmptyBag == [k \in {} |-> "v1"]
\* undefined, for an optional data bag (NodeExecuteResult.data).
NoData == [k \in {"<undefined>"} |-> "undefined"]

\* {...a, ...b}: the keys of both, b's value where both have the key.
Spread(a, b) ==
  [k \in (DOMAIN a) \cup (DOMAIN b) |-> IF k \in DOMAIN b THEN b[k] ELSE a[k]]

\* result.data || {}
OrEmpty(data) == IF data = NoData THEN EmptyBag ELSE data

\* `${v}` of an optional string: undefined prints as "undefined".
TemplateString(v) == IF v = Absent THEN "undefined" ELSE v

\* new Error(message), and a thrown value that is no Error (a number).
Error(message) == [isError |-> TRUE, message |-> message, value |-> 0]
NonError(v) == [isError |-> FALSE, message |-> "", value |-> v]

\* String(v) of a number.
String(v) == CASE v = 0 -> "0" [] v = 42 -> "42" [] OTHER -> "NaN"

\* error instanceof Error ? error.message : String(error)
ErrorMessage(error) == IF error.isError THEN error.message ELSE String(error.value)

\* NodeExecuteResult: what execute resolves to, or the value it throws; calls
\* lists the external calls (fetch, subprocess, agent API) made on the way.
Returns(success, data, error) ==
  [kind |-> "result", success |-> success, data |-> data, error |-> error,
   thrown |-> Error(""), calls |-> <<>>]
Throws(err) ==
  [kind |-> "throw", success |-> FALSE, data |-> NoData, error |-> Absent,
   thrown |-> err, calls |-> <<>>]
NoResult == [kind |-> "none", success |-> FALSE, data |-> NoData,
             error |-> Absent, thrown |-> Error(""), calls |-> <<>>]
\* The outcome r of the code that follows the external call, or the calls.
WithCalls(calls, r) == [r EXCEPT !.calls = calls \o @]
Called(call, r) == WithCalls(<<call>>, r)

(***************************************************************************)
(* Workflow definitions.                                                   *)
(***************************************************************************)
NodeIds == <<"A", "B", "C">>
IdSet == {NodeIds[i] : i \in 1..Len(NodeIds)}
NodeTypes == {"jira", "android"}
NodeClasses == {"JiraNode", "CustomNode"}
\* The node types the repository implements and its workflow factories emit.
BuiltinTypes == {"jira", "android", "googleDrive", "googleChat"}

\* A credentials bag: credential name -> value.
CredentialNames == {"jiraApi", "googleDriveServiceAccount", "googleChatServiceAccount"}
CredentialBags ==
  UNION {[K -> {"secret"}] : K \in SUBSET CredentialNames}
  \cup {[k \in {"jiraApi"} |-> ""]}
EmptyCredentials == [k \in {} |-> "secret"]
\* undefined, for the optional credentials member of a node definition.
NoCredentials == [k \in {"<undefined>"} |-> "undefined"]
\* The credentials member of the nodes of WorkflowDefinition: the Jira
\* credential, as createJiraWorkflow sets it.
NodeCredentials == {[k \in {"jiraApi"} |-> "secret"]}

WorkflowNode == [id : IdSet, type : NodeTypes, credentials : NodeCredentials]
\* null, as findStartNode returns it.
Null == [id |-> "<null>", type |-> "<null>", credentials |-> NoCredentials]

\* workflow.nodes: nodes with distinct ids, in declaration order.
NodeLists ==
  UNION {{ns \in [1..n -> WorkflowNode] : \A i \in 1..n : ns[i].id = NodeIds[i]}
         : n \in 0..Len(NodeIds)}

\* The connection lists of n entries.
ConnectionLists(n) == [1..n -> IdSet]

\* workflow.connections: node id -> list of the connection.node targets, with
\* at most MaxEdges entries in all.
ConnectionMaps ==
  UNION {[A : ConnectionLists(l[1]), B : ConnectionLists(l[2]),
          C : ConnectionLists(l[3])] :
         l \in {m \in [1..3 -> 0..MaxEdges] : m[1] + m[2] + m[3] <= MaxEdges}}
\* A workflow whose connections member is undefined.
Malformed == [k \in {"<undefined>"} |-> <<>>]

WorkflowDefinition ==
  [nodes : NodeLists, connections : ConnectionMaps \cup {Malformed}]
NoWorkflow == [nodes |-> <<>>, connections |-> Malformed]

InputDatas == {EmptyBag, [k \in {"ticket"} |-> "v1"]}

Range(s) == {s[i] : i \in 1..Len(s)}

(***************************************************************************)
(* WorkflowEngine.                                                         *)
(***************************************************************************)
\* The set built by the two loops of findStartNode.
connectedNodes(wf) ==
  UNION {Range(wf.connections[k]) : k \in DOMAIN wf.connections}

\* Faulty variant: the last unreferenced node instead of the first.
findStartNode_last(wf) ==
  LET free == {i \in 1..Len(wf.nodes) : wf.nodes[i].id \notin connectedNodes(wf)}
  IN IF free = {} THEN Null
     ELSE wf.nodes[CHOOSE i \in free : \A j \in free : i >= j]

\* Faulty variant: falls back to the first declared node when every node is
\* a connection target.
findStartNode_fallback(wf) ==
  LET free == {i \in 1..Len(wf.nodes) : wf.nodes[i].id \notin connectedNodes(wf)}
  IN IF free = {} THEN (IF wf.nodes = <<>> THEN Null ELSE wf.nodes[1])
     ELSE wf.nodes[CHOOSE i \in free : \A j \in free : i <= j]

findStartNode(wf) ==
  LET free == {i \in 1..Len(wf.nodes) : wf.nodes[i].id \notin connectedNodes(wf)}
  IN IF free = {} THEN Null
     ELSE wf.nodes[CHOOSE i \in free : \A j \in free : i <= j]

\* workflow.nodes.find(node => node.id === id); Null when there is none.
FindNode(wf, id) ==
  LET hits == {i \in 1..Len(wf.nodes) : wf.nodes[i].id = id}
  IN IF hits = {} THEN Null
     ELSE wf.nodes[CHOOSE i \in hits : \A j \in hits : i <= j]

RECURSIVE ResolveAll(_, _)
ResolveAll(wf, conns) ==
  IF conns = <<>> THEN <<>>
  ELSE LET n == FindNode(wf, Head(conns))
       IN (IF n = Null THEN <<>> ELSE <<n>>) \o ResolveAll(wf, Tail(conns))

\* Faulty variant: only the first connection is looked up.
getNextNodes_firstOnly(wf, currentNodeId) ==
  LET connections == IF currentNodeId \in DOMAIN wf.connections
                     THEN wf.connections[currentNodeId] ELSE <<>>
  IN IF connections = <<>> THEN <<>> ELSE ResolveAll(wf, <<Head(connections)>>)

\* Faulty variant: a node that has been executed is not followed again.
getNextNodes_unvisited(wf, currentNodeId) ==
  LET connections == IF currentNodeId \in DOMAIN wf.connections
                     THEN wf.connections[currentNodeId] ELSE <<>>
  IN SelectSeq(ResolveAll(wf, connections),
               LAMBDA n : \A i \in 1..Len(executed) : executed[i] # n.id)

getNextNodes(wf, currentNodeId) ==
  LET connections == IF currentNodeId \in DOMAIN wf.connections
                     THEN wf.connections[currentNodeId] ELSE <<>>
  IN ResolveAll(wf, connections)

\* The execution record executeWorkflow creates, and its two ways to end.
NoExecution == [status |-> "none", data |-> NoData, error |-> Absent,
                endTime |-> Absent]
NewExecution(input) == [status |-> "running", data |-> input, error |-> Absent,
                        endTime |-> Absent]
\* Faulty variant: the end time is not set.
TryReturn_unfinished(exec, result) ==
  [exec EXCEPT !.status = "success", !.data = result]
TryReturn(exec, result) ==
  [exec EXCEPT !.status = "success", !.endTime = "set", !.data = result]
\* Faulty variant: the data handed to the node entered last is recorded.
CatchReturn_recorded(exec, error) ==
  [exec EXCEPT !.status = "error", !.endTime = "set", !.data = nodeInput,
               !.error = ErrorMessage(error)]
CatchReturn(exec, error) ==
  [exec EXCEPT !.status = "error", !.endTime = "set",
               !.error = ErrorMessage(error)]

NoStartNodeError == Error("No start node found in workflow")
UnknownNodeTypeError(type) == Error("Unknown node type: " \o type)
\* Faulty variant: the node's reported error is dropped.
NodeExecutionFailedError_generic(result) == Error("Node execution failed")
NodeExecutionFailedError(result) ==
  Error("Node execution failed: " \o TemplateString(result.error))

(***************************************************************************)
(* Node implementations.  What a node reads besides its input and its      *)
(* credentials -- its parameters, the answer of the service it calls -- is *)
(* read only inside execute and is gathered in a NodeEnv.                  *)
(***************************************************************************)
NodeOperations == {Absent, "getTicket", "searchTickets", "uploadFile", "sendMessage"}
ServiceResponses == {"ok", "401", "rejected"}
\* operation: parameters.operation; param: the required parameter (ticketKey,
\* searchQuery, command, filePath, spaceId) is set; text: parameters.messageText
\* is set; agent: the agent's constructor succeeds; response: the outcome of the
\* fetch, subprocess or API call.
NodeEnv ==
  [operation : NodeOperations, param : BOOLEAN, text : BOOLEAN, agent : BOOLEAN,
   response : ServiceResponses]

\* BaseNode.getParameter(name, defaultValue)
getParameter(value, defaultValue) == IF value = Absent THEN defaultValue ELSE value

\* BaseNode.getCredential(name)
getCredential(credentials, name) ==
  IF name \in DOMAIN credentials THEN credentials[name] ELSE Absent

\* !v of a string or undefined.
Falsy(v) == v = Absent \/ v = ""

\* BaseNode.validateRequiredCredentials: the message of the Error it throws.
MissingCredential(cred) == "Required credential '" \o cred \o "' is missing"

\* Faulty variant: the check is skipped.
validateRequiredCredentials_skipped(credentials, requiredCreds) == Absent
\* BaseNode.validateRequiredCredentials: the first required credential that is
\* missing (an Error is thrown for it), Absent when there is none.
validateRequiredCredentials(credentials, requiredCreds) ==
  LET missing == {i \in 1..Len(requiredCreds) :
                    Falsy(getCredential(credentials, requiredCreds[i]))}
  IN IF missing = {} THEN Absent
     ELSE requiredCreds[CHOOSE i \in missing : \A j \in missing : i <= j]

\* BaseNode.createSuccessResult / createErrorResult
createSuccessResult(data) == Returns(TRUE, data, Absent)
createErrorResult(error) == Returns(FALSE, NoData, error)

\* Faulty variant: the fault leaves execute.
NodeCatch_rethrow(r) == r
\* The catch block of a shipped node's execute around the outcome r of its try
\* block.
NodeCatch(r) ==
  IF r.kind = "throw"
  THEN WithCalls(r.calls, createErrorResult(ErrorMessage(r.thrown)))
  ELSE r

\* The object literals of the shipped nodes, before ...inputData.
JiraTicketOutput == [k \in {"ticket"} |-> "PROJ-1"]
JiraSearchOutput ==
  [k \in {"tickets", "total", "query"} |->
     CASE k = "tickets" -> "PROJ-1" [] k = "total" -> "1" [] OTHER -> "jql"]
AndroidOutput ==
  [k \in {"command", "projectPath", "stdout", "stderr", "success"} |->
     CASE k = "command" -> "yarn build" [] k = "projectPath" -> "/app"
       [] k = "stdout" -> "done" [] k = "stderr" -> "" [] OTHER -> "true"]
\* GoogleDriveAgent.uploadFile: it catches every failure of the upload and
\* returns a text either way.
GoogleDriveAgentUploadFile(response) ==
  IF response = "ok" THEN "File Uploaded Successfully to Google Drive"
  ELSE "Error uploading file to Google Drive: " \o response
GoogleDriveOutput(message) ==
  [k \in {"operation", "message"} |->
     IF k = "operation" THEN "uploadFile" ELSE message]
GoogleChatOutput ==
  [k \in {"operation", "success", "messageId", "spaceId", "messageText", "threadId"} |->
     CASE k = "operation" -> "sendMessage" [] k = "success" -> "true"
       [] k = "messageId" -> "m1" [] k = "spaceId" -> "spaces/s1"
       [] k = "messageText" -> "hello" [] OTHER -> "t1"]

\* The merge each shipped node applies: { ...own keys, ...inputData }.
MergeOutput(own, input) == Spread(own, input)

\* JiraNode.getTicket
JiraGetTicket(env, input) ==
  IF ~env.param THEN Throws(Error("Ticket key is required"))
  ELSE Called("fetch",
         IF env.response = "rejected" THEN Throws(Error("fetch failed"))
         ELSE IF env.response = "401"
         THEN Throws(Error("Authentication failed for Jira. Please check your credentials. Status: 401"))
         ELSE createSuccessResult(MergeOutput(JiraTicketOutput, input)))

\* JiraNode.searchTickets
JiraSearchTickets(env, input) ==
  IF ~env.param THEN Throws(Error("Search query is required"))
  ELSE Called("fetch",
         IF env.response = "rejected" THEN Throws(Error("fetch failed"))
         ELSE IF env.response # "ok"
         THEN Throws(Error("Error searching tickets: " \o env.response))
         ELSE createSuccessResult(MergeOutput(JiraSearchOutput, input)))

\* JiraNode.execute
JiraNodeExecute(credentials, env, input) ==
  LET missing == validateRequiredCredentials(credentials, <<"jiraApi">>)
      operation == getParameter(env.operation, "getTicket")
  IN NodeCatch(
       IF missing # Absent THEN Throws(Error(MissingCredential(missing)))
       ELSE IF operation = "getTicket" THEN JiraGetTicket(env, input)
       ELSE IF operation = "searchTickets" THEN JiraSearchTickets(env, input)
       ELSE Throws(Error("Unknown operation: " \o operation)))

\* AndroidNode.execute
AndroidNodeExecute(credentials, env, input) ==
  NodeCatch(
    IF ~env.param THEN Throws(Error("Command is required"))
    ELSE Called("exec",
           IF env.response # "ok" THEN Throws(Error("Command failed: yarn build"))
           ELSE createSuccessResult(MergeOutput(AndroidOutput, input))))

\* GoogleDriveNode.uploadFileWithAgent
GoogleDriveUploadFileWithAgent(env, input) ==
  IF ~env.param THEN Throws(Error("File path is required for upload operation"))
  ELSE Called("GoogleDriveAgent.uploadFile",
         createSuccessResult(
           MergeOutput(GoogleDriveOutput(GoogleDriveAgentUploadFile(env.response)),
                       input)))

\* GoogleDriveNode.execute
GoogleDriveNodeExecute(credentials, env, input) ==
  LET missing == validateRequiredCredentials(credentials, <<"googleDriveServiceAccount">>)
      operation == getParameter(env.operation, "uploadFile")
  IN NodeCatch(
       IF missing # Absent THEN Throws(Error(MissingCredential(missing)))
       ELSE IF ~env.agent
       THEN Throws(Error("Google Drive authentication failed: no service account"))
       ELSE IF operation = "uploadFile" THEN GoogleDriveUploadFileWithAgent(env, input)
       ELSE Throws(Error("Unknown operation: " \o operation)))

\* GoogleChatNode.sendMessage
GoogleChatSendMessage(env, input) ==
  IF ~env.text
  THEN Throws(Error("Message text is required for sendMessage operation"))
  ELSE Called("GoogleChatAgent.sendMessageToSpace",
         IF env.response = "rejected" THEN createErrorResult("Failed to send message")
         ELSE IF env.response # "ok" THEN createErrorResult("API error " \o env.response)
         ELSE createSuccessResult(MergeOutput(GoogleChatOutput, input)))

\* GoogleChatNode.execute
GoogleChatNodeExecute(credentials, env, input) ==
  LET missing == validateRequiredCredentials(credentials, <<"googleChatServiceAccount">>)
      operation == getParameter(env.operation, "sendMessage")
  IN NodeCatch(
       IF missing # Absent THEN Throws(Error(MissingCredential(missing)))
       ELSE IF ~env.param THEN Throws(Error("Space ID is required"))
       ELSE IF ~env.agent
       THEN Throws(Error("Google Chat authentication failed: no service account"))
       ELSE IF operation = "sendMessage" THEN GoogleChatSendMessage(env, input)
       ELSE Throws(Error("Unknown operation: " \o operation)))

ShippedClasses == {"JiraNode", "AndroidNode", "GoogleDriveNode", "GoogleChatNode"}
ShippedExecute(class, credentials, env, input) ==
  CASE class = "JiraNode" -> JiraNodeExecute(credentials, env, input)
    [] class = "AndroidNode" -> AndroidNodeExecute(credentials, env, input)
    [] class = "GoogleDriveNode" -> GoogleDriveNodeExecute(credentials, env, input)
    [] OTHER -> GoogleChatNodeExecute(credentials, env, input)

\* Any other subclass of BaseNode passed to registerNode: execute may resolve
\* to any NodeExecuteResult or throw.
CustomErrors == {Absent, "boom"}
CustomThrown == {Error("kaboom"), NonError(42)}
CustomNodeExecute ==
  {Returns(TRUE, d, Absent) : d \in WorkflowData \cup {NoData}}
  \cup {Returns(FALSE, NoData, e) : e \in CustomErrors}
  \cup {Throws(t) : t \in CustomThrown}

\* nodeInstance.execute(inputData): the results the instance can settle to.
NoEnv == [operation |-> Absent, param |-> TRUE, text |-> TRUE, agent |-> TRUE,
          response |-> "ok"]
\* The environments of a node run by the engine (its agent constructs).
EngineEnvs ==
  [operation : NodeOperations, param : BOOLEAN, text : {TRUE}, agent : {TRUE},
   response : ServiceResponses]
execute(class, credentials, input) ==
  IF class \in ShippedClasses
  THEN {ShippedExecute(class, credentials, env, input) : env \in EngineEnvs}
  ELSE CustomNodeExecute

\* Faulty variant: the bag is merged over the bag of the node run before.
extractCredentials_merged(node) ==
  IF node.credentials = NoCredentials THEN nodeCredentials
  ELSE Spread(nodeCredentials, node.credentials)
\* WorkflowEngine.extractCredentials: node.credentials || {}
extractCredentials(node) ==
  IF node.credentials = NoCredentials THEN EmptyCredentials ELSE node.credentials

\* new NodeClass(node, credentials): BaseNode's constructor only stores its
\* arguments; a subclass constructor may throw.
Construct(class, credentials) ==
  {[kind |-> "instance", class |-> class, credentials |-> credentials,
    thrown |-> Error("")]}
  \cup (IF class = "CustomNode"
        THEN {[kind |-> "throw", class |-> class, credentials |-> credentials,
               thrown |-> Error("constructor failed")]}
        ELSE {})

createNodeInstance(node) ==
  IF node.type \notin DOMAIN nodeRegistry
  THEN {[kind |-> "throw", class |-> "none", credentials |-> EmptyCredentials,
         thrown |-> UnknownNodeTypeError(node.type)]}
  ELSE Construct(nodeRegistry[node.type], extractCredentials(node))

(***************************************************************************)
(* The engine's operations.                                                *)
(***************************************************************************)
\* The engine after its constructor, no call of executeWorkflow made.
EngineInit ==
  /\ nodeRegistry = [t \in {"jira"} |-> "JiraNode"]
  /\ workflow = NoWorkflow
  /\ inputData = EmptyBag
  /\ execution = NoExecution
  /\ pc = "idle"
  /\ outcome = "none"
  /\ currentNode = Null
  /\ nodeInstance = "none"
  /\ nodeCredentials = EmptyCredentials
  /\ nodeEnv = NoEnv
  /\ nodeInput = EmptyBag
  /\ lastResult = NoResult
  /\ executed = <<>>
  /\ instantiated = <<>>
  /\ inFlight = <<>>

\* A lookup in the registry: by createNodeInstance or getNodeDefinition.  at:
\* the number of registerNode calls made before it.
NoLookup == [type |-> "none", at |-> 0, kind |-> "none", class |-> "none",
             thrown |-> Error("")]
RegistryInit ==
  /\ registrations = <<[type |-> "jira", nodeClass |-> "JiraNode"]>>
  /\ resolved = NoLookup

\* The locals of a call that has not been made.
NoCall ==
  [workflow |-> NoWorkflow, inputData |-> EmptyBag, execution |-> NoExecution,
   pc |-> "idle", outcome |-> "none", currentNode |-> Null,
   nodeInstance |-> "none", nodeCredentials |-> EmptyCredentials,
   nodeInput |-> EmptyBag, lastResult |-> NoResult, executed |-> <<>>,
   instantiated |-> <<>>, inFlight |-> <<>>, settled |-> <<>>]
ConcurrentInit ==
  /\ parked = NoCall
  /\ settled = <<>>
  /\ scheduled = 1

\* request.params.arguments: undefined, or an object whose members are strings
\* or undefined (enableProgress: a boolean).
NoArguments ==
  [present |-> FALSE, query |-> Absent, text |-> Absent, assignee |-> Absent,
   status |-> Absent, priority |-> Absent, issueType |-> Absent,
   command |-> Absent, projectPath |-> Absent, runGradleClean |-> Absent,
   filePath |-> Absent, folderId |-> Absent, fileName |-> Absent,
   enableProgress |-> FALSE]
EmptyArguments == [NoArguments EXCEPT !.present = TRUE]
NoRequest == [name |-> "<none>", arguments |-> NoArguments]
\* What the handler answers: a content block with one text, or a thrown value.
NoReply == [kind |-> "none", text |-> "", thrown |-> Error("")]
ServerInit ==
  /\ request = NoRequest
  /\ reply = NoReply
  /\ agentCalls = <<>>
  /\ serverPc = "idle"

\* An ExecutionResult, and the promise of one: pending until resolve is called.
ExecutionResult(success, out, error) ==
  [success |-> success, output |-> out, error |-> error]
Pending == [state |-> "pending", value |-> ExecutionResult(FALSE, "", Absent)]
Fulfilled(result) == [state |-> "fulfilled", value |-> result]
\* No child process: executeCommand has not been called.
NoChild == [state |-> "none", cmd |-> "", args |-> <<>>, cwd |-> "",
            killed |-> FALSE, kills |-> 0, signals |-> 0]
CommandInit ==
  /\ promise = Pending
  /\ child = NoChild
  /\ timer = "unset"
  /\ output = ""
  /\ errorOutput = ""
  /\ events = <<>>

\* No call of buildAndroidRelease has been made.
NoBuildInput == [runGradleClean |-> Absent, projectPath |-> "", skipClean |-> FALSE,
                 files |-> {}]
BuildInit ==
  /\ buildPc = "idle"
  /\ buildInput = NoBuildInput
  /\ files = {}
  /\ steps = <<>>
  /\ buildResult = ""

\* No call of uploadFile has been made.
NoUpload == [fileExists |-> FALSE, large |-> FALSE, folderId |-> Absent,
             env |-> Absent]
DriveInit ==
  /\ drivePc = "idle"
  /\ driveCall = NoUpload
  /\ sharedFolderId = Absent
  /\ driveRequests = <<>>
  /\ driveFolders = {}
  /\ driveReply = ""

Init ==
  /\ EngineInit /\ RegistryInit /\ ConcurrentInit /\ ServerInit
  /\ CommandInit /\ BuildInit /\ DriveInit

\* Faulty variant: a type that is registered keeps its constructor.
RegisterNode_keepFirst(type, nodeClass) ==
  /\ pc = "idle"
  /\ nodeRegistry' =
       [t \in (DOMAIN nodeRegistry) \cup {type} |->
          IF t \in DOMAIN nodeRegistry THEN nodeRegistry[t] ELSE nodeClass]
  /\ UNCHANGED <<workflow, inputData, execution, pc, outcome, currentNode,
                 nodeInstance, nodeCredentials, nodeEnv, nodeInput, lastResult,
                 executed, instantiated, inFlight>>

RegisterNode(type, nodeClass) ==
  /\ pc = "idle"
  /\ nodeRegistry' =
       [t \in (DOMAIN nodeRegistry) \cup {type} |->
          IF t = type THEN nodeClass ELSE nodeRegistry[t]]
  /\ UNCHANGED <<workflow, inputData, execution, pc, outcome, currentNode,
                 nodeInstance, nodeCredentials, nodeEnv, nodeInput, lastResult,
                 executed, instantiated, inFlight>>

\* executeWorkflow returns exec to its caller.
Settle(exec) ==
  /\ execution' = exec
  /\ pc' = "done"
  /\ outcome' = "returned"

\* Faulty variant: the fault leaves executeWorkflow (the promise rejects).
Catch_rethrow(exec, error) ==
  /\ execution' = exec
  /\ pc' = "done"
  /\ outcome' = "rejected"

\* The catch block of executeWorkflow.
Catch(exec, error) == Settle(CatchReturn(exec, error))

\* Faulty variant: the types of all nodes are resolved before a node is
\* entered.
EnterNode_eager(exec, node, input, pending) ==
  LET unknown == {i \in 1..Len(workflow'.nodes) :
                    workflow'.nodes[i].type \notin DOMAIN nodeRegistry}
  IN IF unknown # {}
     THEN /\ Catch(exec, UnknownNodeTypeError(
                           workflow'.nodes[CHOOSE i \in unknown : TRUE].type))
          /\ UNCHANGED <<currentNode, nodeInstance, nodeCredentials, nodeInput,
                         executed, instantiated>>
          /\ inFlight' = pending
     ELSE \E inst \in createNodeInstance(node) :
            /\ instantiated' = Append(instantiated, node.id)
            /\ IF inst.kind = "throw"
               THEN /\ Catch(exec, inst.thrown)
                    /\ inFlight' = pending
                    /\ UNCHANGED <<currentNode, nodeInstance, nodeCredentials,
                                   nodeInput, executed>>
               ELSE /\ execution' = exec
                    /\ pc' = "executing"
                    /\ outcome' = "none"
                    /\ currentNode' = node
                    /\ nodeInstance' = inst.class
                    /\ nodeCredentials' = inst.credentials
                    /\ nodeInput' = input
                    /\ executed' = Append(executed, node.id)
                    /\ inFlight' = Append(pending, node.id)

\* executeNodeChain up to its await: instantiate the node, call execute.
\* pending: the execute calls that have not settled.
EnterNode(exec, node, input, pending) ==
  \E inst \in createNodeInstance(node) :
    /\ instantiated' = IF inst.class = "none" THEN instantiated
                       ELSE Append(instantiated, node.id)
    /\ IF inst.kind = "throw"
       THEN /\ Catch(exec, inst.thrown)
            /\ inFlight' = pending
            /\ UNCHANGED <<currentNode, nodeInstance, nodeCredentials, nodeInput,
                           executed>>
       ELSE /\ execution' = exec
            /\ pc' = "executing"
            /\ outcome' = "none"
            /\ currentNode' = node
            /\ nodeInstance' = inst.class
            /\ nodeCredentials' = inst.credentials
            /\ nodeInput' = input
            /\ executed' = Append(executed, node.id)
            /\ inFlight' = Append(pending, node.id)

ExecuteWorkflow(wf, input) ==
  /\ pc = "idle"
  /\ workflow' = wf
  /\ inputData' = input
  /\ UNCHANGED <<nodeRegistry, nodeEnv, lastResult>>
  /\ LET exec == NewExecution(input)
     IN IF wf.connections = Malformed
        THEN /\ Catch(exec, Error("Cannot convert undefined or null to object"))
             /\ UNCHANGED <<currentNode, nodeInstance, nodeCredentials, nodeInput,
                            executed, instantiated, inFlight>>
        ELSE LET startNode == findStartNode(wf)
             IN IF startNode = Null
                THEN /\ Catch(exec, NoStartNodeError)
                     /\ UNCHANGED <<currentNode, nodeInstance, nodeCredentials,
                                    nodeInput, executed, instantiated, inFlight>>
                ELSE EnterNode(exec, startNode, input, inFlight)

\* Faulty variant: the success flag is not looked at.
Failed_never(result) == FALSE
\* if (!result.success)
Failed(result) == ~result.success

\* Faulty variant: the run's data is left empty.
ChainResult_empty(result) == EmptyBag
\* The data executeNodeChain returns at the end of the chain.
ChainResult(result) == OrEmpty(result.data)

\* Faulty variant: the node's own input is handed on instead of its output.
ChainInput_stale(result) == nodeInput
\* The data executeNodeChain hands to the next node.
ChainInput(result) == OrEmpty(result.data)

\* Faulty variant: the last resolved successor is followed.
FirstNext_last(nextNodes) == nextNodes[Len(nextNodes)]
\* const nextNode = nextNodes[0]
FirstNext(nextNodes) == nextNodes[1]

\* Faulty variant: the call is not awaited and stays in flight.
AfterAwait_forgotten(pending, id) == pending
\* await nodeInstance.execute(inputData): the call of node id has settled.
AfterAwait(pending, id) ==
  LET hits == {i \in 1..Len(pending) : pending[i] = id}
      last == CHOOSE i \in hits : \A j \in hits : i >= j
  IN IF hits = {} THEN pending
     ELSE SubSeq(pending, 1, last - 1) \o SubSeq(pending, last + 1, Len(pending))

\* executeNodeChain from its await on, the awaited execute having settled to
\* result: on to the next await or to the end of executeWorkflow.
Continue(result) ==
  LET pending == AfterAwait(inFlight, currentNode.id)
  IN /\ lastResult' = result
     /\ UNCHANGED <<nodeRegistry, workflow, inputData, nodeEnv>>
     /\ IF result.kind = "throw"
        THEN /\ Catch(execution, result.thrown)
             /\ inFlight' = pending
             /\ UNCHANGED <<currentNode, nodeInstance, nodeCredentials, nodeInput,
                            executed, instantiated>>
        ELSE IF Failed(result)
        THEN /\ Catch(execution, NodeExecutionFailedError(result))
             /\ inFlight' = pending
             /\ UNCHANGED <<currentNode, nodeInstance, nodeCredentials, nodeInput,
                            executed, instantiated>>
        ELSE LET nextNodes == getNextNodes(workflow, currentNode.id)
             IN IF nextNodes = <<>>
                THEN /\ Settle(TryReturn(execution, ChainResult(result)))
                     /\ inFlight' = pending
                     /\ UNCHANGED <<currentNode, nodeInstance, nodeCredentials,
                                    nodeInput, executed, instantiated>>
                ELSE /\ Len(executed) < MaxSteps
                     /\ EnterNode(execution, FirstNext(nextNodes),
                                  ChainInput(result), pending)

\* Faulty variant: a node whose execute failed or threw is executed once more.
NodeCompletes_retry ==
  /\ pc = "executing"
  /\ \E result \in execute(nodeInstance, nodeCredentials, nodeInput) :
       IF /\ result.kind = "throw" \/ ~result.success
          /\ Len(executed) < MaxSteps
          /\ \A i \in 1..(Len(executed) - 1) : executed[i] # currentNode.id
       THEN /\ lastResult' = result
            /\ executed' = Append(executed, currentNode.id)
            /\ UNCHANGED <<nodeRegistry, workflow, inputData, execution, pc,
                           outcome, currentNode, nodeInstance, nodeCredentials,
                           nodeEnv, nodeInput, instantiated, inFlight>>
       ELSE Continue(result)

\* The awaited execute settles.
NodeCompletes ==
  /\ pc = "executing"
  /\ \E result \in execute(nodeInstance, nodeCredentials, nodeInput) :
       Continue(result)

Next ==
  /\ \/ \E type \in NodeTypes, nodeClass \in NodeClasses : RegisterNode(type, nodeClass)
     \/ /\ pc = "idle"
        /\ \E wf \in WorkflowDefinition, input \in InputDatas : ExecuteWorkflow(wf, input)
     \/ NodeCompletes
  /\ UNCHANGED <<registryVars, concurrentVars, serverVars, commandVars,
                 buildVars, driveVars>>

Spec == Init /\ [][Next]_vars

(***************************************************************************)
(* The shipped nodes on their own: execute of one node instance, for every *)
(* node environment and input.                                             *)
(***************************************************************************)
NodeInputKeys == {"ticket", "operation", "success", "command", "messageText"}
NodeInputs == UNION {[K -> Vals] : K \in SUBSET NodeInputKeys}

InitNodes ==
  /\ nodeRegistry = [t \in {"jira"} |-> "JiraNode"]
  /\ workflow = NoWorkflow
  /\ inputData = EmptyBag
  /\ execution = NoExecution
  /\ pc = "executing"
  /\ outcome = "none"
  /\ currentNode = Null
  /\ nodeInstance \in ShippedClasses
  /\ nodeCredentials \in CredentialBags
  /\ nodeEnv \in NodeEnv
  /\ nodeInput \in NodeInputs
  /\ lastResult = NoResult
  /\ executed = <<>>
  /\ instantiated = <<>>
  /\ inFlight = <<>>
  /\ RegistryInit
  /\ ConcurrentInit
  /\ ServerInit
  /\ CommandInit
  /\ BuildInit
  /\ DriveInit

NodeExecute ==
  /\ pc = "executing"
  /\ lastResult' = ShippedExecute(nodeInstance, nodeCredentials, nodeEnv, nodeInput)
  /\ pc' = "done"
  /\ UNCHANGED <<nodeRegistry, workflow, inputData, execution, outcome,
                 currentNode, nodeInstance, nodeCredentials, nodeEnv, nodeInput,
                 executed, instantiated, inFlight>>

NextNodes ==
  /\ NodeExecute
  /\ UNCHANGED <<registryVars, concurrentVars, serverVars, commandVars,
                 buildVars, driveVars>>

SpecNodes == InitNodes /\ [][NextNodes]_vars

(***************************************************************************)
(* Credentials: the shipped node classes registered under their type names *)
(* and run in workflows whose nodes carry any credentials bag or none.     *)
(***************************************************************************)
\* The class that implements a built-in type (getDefinition().name).
ShippedClassOf(type) ==
  CASE type = "jira" -> "JiraNode"
    [] type = "android" -> "AndroidNode"
    [] type = "googleDrive" -> "GoogleDriveNode"
    [] OTHER -> "GoogleChatNode"

\* The one credential a node class requires, Absent when it requires none.
RequiredCredential(class) ==
  CASE class = "JiraNode" -> "jiraApi"
    [] class = "GoogleDriveNode" -> "googleDriveServiceAccount"
    [] class = "GoogleChatNode" -> "googleChatServiceAccount"
    [] OTHER -> Absent

CredentialMembers ==
  {NoCredentials, EmptyCredentials}
  \cup {[k \in {n} |-> "secret"] : n \in CredentialNames}
  \cup {[k \in CredentialNames |-> "secret"]}
CredentialNodes(id) ==
  [id : {id}, type : BuiltinTypes, credentials : CredentialMembers]
\* One node, or two nodes connected A -> B.
CredentialWorkflows ==
  {[nodes |-> <<a>>, connections |-> [A |-> <<>>, B |-> <<>>, C |-> <<>>]] :
     a \in CredentialNodes("A")}
  \cup {[nodes |-> <<a, b>>,
         connections |-> [A |-> <<"B">>, B |-> <<>>, C |-> <<>>]] :
         a \in CredentialNodes("A"), b \in CredentialNodes("B")}

NextCredentials ==
  /\ \/ \E type \in BuiltinTypes : RegisterNode(type, ShippedClassOf(type))
     \/ /\ pc = "idle"
        /\ \E wf \in CredentialWorkflows : ExecuteWorkflow(wf, EmptyBag)
     \/ NodeCompletes
  /\ UNCHANGED <<registryVars, concurrentVars, serverVars, commandVars,
                 buildVars, driveVars>>

SpecCredentials == Init /\ [][NextCredentials]_vars

(***************************************************************************)
(* The registry on its own: registerNode calls in any order, each lookup   *)
(* recorded with the number of registrations made before it.               *)
(***************************************************************************)
RegistryClasses == NodeClasses \cup {"AndroidNode"}

\* A caller registers a node class.
Register(type, nodeClass) ==
  /\ Len(registrations) <= MaxRegistrations
  /\ RegisterNode(type, nodeClass)
  /\ registrations' = Append(registrations, [type |-> type, nodeClass |-> nodeClass])
  /\ UNCHANGED resolved

Lookup(type, inst) ==
  [type |-> type, at |-> Len(registrations), kind |-> inst.kind,
   class |-> inst.class, thrown |-> inst.thrown]

\* createNodeInstance(node, workflow), as executeNodeChain calls it.
CreateNodeInstance(node) ==
  /\ \E inst \in createNodeInstance(node) : resolved' = Lookup(node.type, inst)
  /\ UNCHANGED <<engineVars, registrations>>

\* WorkflowEngine.getNodeDefinition
getNodeDefinition(nodeType) ==
  IF nodeType \notin DOMAIN nodeRegistry
  THEN {[kind |-> "throw", class |-> "none", credentials |-> EmptyCredentials,
         thrown |-> UnknownNodeTypeError(nodeType)]}
  ELSE Construct(nodeRegistry[nodeType], EmptyCredentials)

GetNodeDefinition(nodeType) ==
  /\ \E inst \in getNodeDefinition(nodeType) : resolved' = Lookup(nodeType, inst)
  /\ UNCHANGED <<engineVars, registrations>>

NextRegistry ==
  /\ \/ \E type \in NodeTypes, nodeClass \in RegistryClasses : Register(type, nodeClass)
     \/ \E node \in WorkflowNode : CreateNodeInstance(node)
     \/ \E nodeType \in NodeTypes : GetNodeDefinition(nodeType)
  /\ UNCHANGED <<concurrentVars, serverVars, commandVars, buildVars,
                 driveVars>>

SpecRegistry == Init /\ [][NextRegistry]_vars

(***************************************************************************)
(* Two concurrent calls of executeWorkflow on one engine.  JavaScript runs *)
(* a call until its next await, so a call is left only while it waits for  *)
(* nodeInstance.execute, before it has started or after it has returned.   *)
(***************************************************************************)
\* The workflows of the two calls: one node, or two nodes connected A -> B.
ConcurrentNodes(id) == {n \in WorkflowNode : n.id = id}
ConcurrentWorkflows ==
  {[nodes |-> <<a>>, connections |-> [A |-> <<>>, B |-> <<>>, C |-> <<>>]] :
     a \in ConcurrentNodes("A")}
  \cup {[nodes |-> <<a, b>>,
         connections |-> [A |-> <<"B">>, B |-> <<>>, C |-> <<>>]] :
         a \in ConcurrentNodes("A"), b \in ConcurrentNodes("B")}

\* The locals of the scheduled call.
Locals ==
  [workflow |-> workflow, inputData |-> inputData, execution |-> execution,
   pc |-> pc, outcome |-> outcome, currentNode |-> currentNode,
   nodeInstance |-> nodeInstance, nodeCredentials |-> nodeCredentials,
   nodeInput |-> nodeInput, lastResult |-> lastResult, executed |-> executed,
   instantiated |-> instantiated, inFlight |-> inFlight, settled |-> settled]

\* Faulty variant: the record is a field of the engine, the same for every call.
ExecutionOf_shared(own, other) == other
\* const execution: WorkflowExecution = {...}: a local of executeWorkflow, so
\* the call that resumes finds its own record, not the other call's.
ExecutionOf(own, other) == own

\* The scheduled call, made and waiting or returned, leaves the processor to
\* the other call.
Switch ==
  /\ pc # "idle"
  /\ parked' = Locals
  /\ workflow' = parked.workflow
  /\ inputData' = parked.inputData
  /\ execution' = ExecutionOf(parked.execution, execution)
  /\ pc' = parked.pc
  /\ outcome' = parked.outcome
  /\ currentNode' = parked.currentNode
  /\ nodeInstance' = parked.nodeInstance
  /\ nodeCredentials' = parked.nodeCredentials
  /\ nodeInput' = parked.nodeInput
  /\ lastResult' = parked.lastResult
  /\ executed' = parked.executed
  /\ instantiated' = parked.instantiated
  /\ inFlight' = parked.inFlight
  /\ settled' = parked.settled
  /\ scheduled' = 3 - scheduled
  /\ UNCHANGED <<nodeRegistry, nodeEnv>>

\* A constructor that threw, as an entry of settled.
ConstructorThrew == [NoResult EXCEPT !.kind = "constructor"]
\* What the step of the scheduled call was given: the results its awaits
\* settled to and whether the constructor of the node it entered threw.
Observe(results) ==
  settled' = settled \o results
             \o (IF /\ Len(instantiated') > Len(instantiated)
                    /\ Len(executed') = Len(executed)
                 THEN <<ConstructorThrew>> ELSE <<>>)

\* registerNode before the first call of executeWorkflow.
ConcurrentRegisterNode(type, nodeClass) ==
  /\ parked.pc = "idle"
  /\ RegisterNode(type, nodeClass)
  /\ UNCHANGED <<parked, settled, scheduled>>

\* The two calls are given different inputs.
ConcurrentInput == [k \in {"ticket"} |-> IF scheduled = 1 THEN "v1" ELSE "v2"]

ConcurrentExecuteWorkflow(wf) ==
  /\ ExecuteWorkflow(wf, ConcurrentInput)
  /\ Observe(<<>>)
  /\ UNCHANGED <<parked, scheduled>>

ConcurrentNodeCompletes ==
  /\ NodeCompletes
  /\ Observe(<<lastResult'>>)
  /\ UNCHANGED <<parked, scheduled>>

NextConcurrent ==
  /\ \/ \E nodeClass \in NodeClasses : ConcurrentRegisterNode("android", nodeClass)
     \/ /\ pc = "idle"
        /\ \E wf \in ConcurrentWorkflows : ConcurrentExecuteWorkflow(wf)
     \/ ConcurrentNodeCompletes
     \/ Switch
  /\ UNCHANGED <<registryVars, serverVars, commandVars, buildVars,
                 driveVars>>

SpecConcurrent == Init /\ [][NextConcurrent]_vars

\* A call on its own.  executeNodeChain run from node with the constructors
\* and awaits giving what settled lists, in order: the data it returns, the
\* value it throws, kind "none" when settled ends before the chain does and
\* kind "impossible" when settled holds what the call cannot be given.
Impossible == [NoResult EXCEPT !.kind = "impossible"]
RECURSIVE ChainAlone(_, _, _, _)
ChainAlone(wf, node, input, given) ==
  IF node.type \notin DOMAIN nodeRegistry
  THEN IF given = <<>> THEN Throws(UnknownNodeTypeError(node.type)) ELSE Impossible
  ELSE IF given = <<>> THEN NoResult
  ELSE LET result == Head(given)
           rest == Tail(given)
           instances == createNodeInstance(node)
           thrown == {i \in instances : i.kind = "throw"}
           built == {i \in instances : i.kind = "instance"}
       IN IF result = ConstructorThrew
          THEN IF thrown # {} /\ rest = <<>>
               THEN Throws((CHOOSE i \in thrown : TRUE).thrown) ELSE Impossible
          ELSE IF \A i \in built : result \notin execute(i.class, i.credentials, input)
          THEN Impossible
          ELSE IF result.kind = "throw"
          THEN IF rest = <<>> THEN Throws(result.thrown) ELSE Impossible
          ELSE IF Failed(result)
          THEN IF rest = <<>> THEN Throws(NodeExecutionFailedError(result))
               ELSE Impossible
          ELSE LET nextNodes == getNextNodes(wf, node.id)
               IN IF nextNodes = <<>>
                  THEN IF rest = <<>> THEN Returns(TRUE, ChainResult(result), Absent)
                       ELSE Impossible
                  ELSE ChainAlone(wf, FirstNext(nextNodes), ChainInput(result), rest)

\* executeWorkflow(wf, input) on its own: the record it returns, the running
\* record while it waits, NoExecution when given is impossible.
RunAlone(wf, input, given) ==
  LET exec == NewExecution(input)
  IN IF wf.connections = Malformed
     THEN CatchReturn(exec, Error("Cannot convert undefined or null to object"))
     ELSE LET startNode == findStartNode(wf)
          IN IF startNode = Null THEN CatchReturn(exec, NoStartNodeError)
             ELSE LET r == ChainAlone(wf, startNode, input, given)
                  IN CASE r.kind = "throw" -> CatchReturn(exec, r.thrown)
                       [] r.kind = "result" -> TryReturn(exec, r.data)
                       [] r.kind = "none" -> exec
                       [] OTHER -> NoExecution

(***************************************************************************)
(* The MCP server's handler of tool calls (CallToolRequestSchema): one     *)
(* call at a time, from the request to the handler's answer.               *)
(***************************************************************************)
\* The names of the tools the ListTools handler returns, in its order.
ListedTools ==
  <<"jira_agent", "jira_advanced_search", "android_release_agent",
    "google_drive_upload", "google_chat_agent">>
ToolNames == Range(ListedTools) \cup {"jira_search", ""}

\* The argument objects of the calls.
ArgumentObjects ==
  {NoArguments, EmptyArguments}
  \cup {[EmptyArguments EXCEPT !.query = q] : q \in {"PROJ-1", ""}}
  \cup {[EmptyArguments EXCEPT !.text = t, !.assignee = a, !.status = st] :
          t \in {Absent, "bug"}, a \in {Absent, "bob"}, st \in {Absent, "open"}}
  \cup {[EmptyArguments EXCEPT !.priority = "high", !.issueType = "task"]}
  \cup {[EmptyArguments EXCEPT !.command = c, !.projectPath = d,
                                !.runGradleClean = g] :
          c \in {"android:release", "yarn test"}, d \in {Absent, "/app"},
          g \in {Absent, "yes", "no"}}
  \cup {[EmptyArguments EXCEPT !.filePath = "a.apk", !.folderId = f,
                                !.fileName = Absent, !.enableProgress = e] :
          f \in {Absent, "folder"}, e \in BOOLEAN}
CallToolRequest == [name : ToolNames, arguments : ArgumentObjects]

\* A call of an agent method: its string arguments (undefined as Absent) and
\* its one non-string argument (skipClean, or whether onProgress is passed).
AgentCall(agent, method, args, flag) ==
  [agent |-> agent, method |-> method, args |-> args, flag |-> flag]

\* What the awaited agent method settles to: a text it returns or a value it
\* throws.
AgentReturns(text) == [kind |-> "return", text |-> text, thrown |-> Error("")]
AgentThrows(err) == [kind |-> "throw", text |-> "", thrown |-> err]
AgentOutcomes ==
  {AgentReturns(t) : t \in {"done", "Error: failed"}}
  \cup {AgentThrows(e) : e \in {Error("network down"), NonError(42)}}

\* return { content: [{ type: 'text', text }] }
ContentBlock(text) == [kind |-> "content", text |-> text, thrown |-> Error("")]
\* The handler throws: the request is answered with an error, not a result.
HandlerThrows(err) == [kind |-> "throw", text |-> "", thrown |-> err]

\* queryParts.join(' ')
RECURSIVE Join(_, _)
Join(parts, sep) ==
  IF parts = <<>> THEN ""
  ELSE IF Len(parts) = 1 THEN parts[1]
  ELSE parts[1] \o sep \o Join(Tail(parts), sep)

\* The query jira_advanced_search builds from its search options.
SearchQuery(searchOptions) ==
  Join((IF Falsy(searchOptions.text) THEN <<>> ELSE <<searchOptions.text>>)
       \o (IF Falsy(searchOptions.assignee) THEN <<>>
           ELSE <<"assigned to " \o searchOptions.assignee>>)
       \o (IF Falsy(searchOptions.status) THEN <<>> ELSE <<searchOptions.status>>)
       \o (IF Falsy(searchOptions.priority) THEN <<>>
           ELSE <<searchOptions.priority>>)
       \o (IF Falsy(searchOptions.issueType) THEN <<>>
           ELSE <<searchOptions.issueType>>),
       " ")

\* The prefix each tool's catch block puts before the error message.
ErrorPrefix(name) ==
  CASE name = "jira_agent" -> "Error processing request: "
    [] name = "jira_advanced_search" -> "Error processing advanced search: "
    [] name = "android_release_agent" -> "Error processing Android command: "
    [] name = "google_drive_upload" -> "Error uploading file to Google Drive: "
    [] OTHER -> "Error with Google Chat agent: "

\* Faulty variant: the tool's catch block lets the error through.
ToolCatch_rethrow(name, error) == HandlerThrows(error)
\* The catch block of a tool's branch.
ToolCatch(name, error) ==
  ContentBlock(ErrorPrefix(name) \o ErrorMessage(error))

\* Reading a member of undefined: the TypeError of the engine.
DestructureError(member) ==
  Error("Cannot destructure property '" \o member \o "' of 'undefined'")
ReadError(member) ==
  Error("Cannot read properties of undefined (reading '" \o member \o "')")

\* The handler up to its await: the agent call it makes (at most one), and
\* its answer when it answers without awaiting.
Dispatch(name, args) ==
  CASE name = "jira_agent" ->
         IF ~args.present
         THEN [calls |-> <<>>, reply |-> HandlerThrows(DestructureError("query"))]
         ELSE [calls |-> <<AgentCall("jiraAgent", "processQuery",
                                     <<args.query>>, FALSE)>>,
               reply |-> NoReply]
    [] name = "jira_advanced_search" ->
         IF ~args.present
         THEN [calls |-> <<>>, reply |-> ToolCatch(name, ReadError("text"))]
         ELSE [calls |-> <<AgentCall("jiraAgent", "processQuery",
                                     <<SearchQuery(args)>>, FALSE)>>,
               reply |-> NoReply]
    [] name = "android_release_agent" ->
         IF ~args.present
         THEN [calls |-> <<>>, reply |-> HandlerThrows(DestructureError("command"))]
         ELSE IF args.command = "android:release"
         THEN [calls |-> <<AgentCall("androidReleaseAgent", "buildAndroidRelease",
                                     <<args.projectPath>>,
                                     args.runGradleClean # "yes")>>,
               reply |-> NoReply]
         ELSE [calls |-> <<AgentCall("androidReleaseAgent", "processCommand",
                                     <<args.command, args.projectPath>>, FALSE)>>,
               reply |-> NoReply]
    [] name = "google_drive_upload" ->
         IF ~args.present
         THEN [calls |-> <<>>, reply |-> HandlerThrows(DestructureError("filePath"))]
         ELSE [calls |-> <<AgentCall("googleDriveAgent", "uploadFile",
                                     <<args.filePath, args.folderId, args.fileName>>,
                                     args.enableProgress)>>,
               reply |-> NoReply]
    [] name = "google_chat_agent" ->
         IF ~args.present
         THEN [calls |-> <<>>, reply |-> HandlerThrows(DestructureError("query"))]
         ELSE [calls |-> <<AgentCall("googleChatAgent", "processQuery",
                                     <<args.query>>, FALSE)>>,
               reply |-> NoReply]
    [] OTHER ->
         [calls |-> <<>>, reply |-> HandlerThrows(Error("Unknown tool: " \o name))]

\* A tools/call request arrives and the handler runs to its await or its end.
CallTool(req) ==
  /\ serverPc \in {"idle", "done"}
  /\ request' = req
  /\ LET d == Dispatch(req.name, req.arguments)
     IN /\ agentCalls' = d.calls
        /\ reply' = d.reply
        /\ serverPc' = IF d.reply = NoReply THEN "awaiting" ELSE "done"

\* The awaited agent method settles and the handler answers.
AgentSettles(settlement) ==
  /\ serverPc = "awaiting"
  /\ reply' = IF settlement.kind = "throw"
              THEN ToolCatch(request.name, settlement.thrown)
              ELSE ContentBlock(settlement.text)
  /\ serverPc' = "done"
  /\ UNCHANGED <<request, agentCalls>>

NextServer ==
  /\ \/ \E req \in CallToolRequest : CallTool(req)
     \/ \E settlement \in AgentOutcomes : AgentSettles(settlement)
  /\ UNCHANGED <<engineVars, registryVars, concurrentVars, commandVars,
                 buildVars, driveVars>>

SpecServer == Init /\ [][NextServer]_vars

(***************************************************************************)
(* AndroidReleaseAgent.executeCommand: a child process raced against a     *)
(* timer that is set once and never cleared.                               *)
(***************************************************************************)
\* A command line, as the words command.split(' ') yields: the program and
\* its arguments.
Commands == {<<"./gradlew", "assembleRelease">>, <<"yarn", "install">>}
ProjectPaths == {"/app"}
Chunks == {"x"}
\* The exit code passed to 'close': null when a signal ended the process.
ExitCodes == {"0", "1", "null"}
ErrorMessages == {"spawn /bin/sh ENOENT"}

TimeoutError ==
  "Command timeout after 25 minutes - consider using a more powerful device for faster builds"

\* Faulty variant: a later resolve replaces the result.
Resolve_overwrite(p, result) == Fulfilled(result)
\* resolve(result): settles the promise if it is pending, else does nothing.
Resolve(p, result) == IF p.state = "pending" THEN Fulfilled(result) ELSE p

\* An entry of events: the handler that called resolve and what it passed.
Resolved(event, result) == [event |-> event, result |-> result]

\* executeCommand(command, projectPath) up to the return of the promise: the
\* child is spawned, the listeners are attached, the timer is set.
ExecuteCommand(command, projectPath) ==
  /\ child.state = "none"
  /\ child' = [state |-> "running", cmd |-> Head(command), args |-> Tail(command),
               cwd |-> projectPath, killed |-> FALSE, kills |-> 0,
               signals |-> 0]
  /\ timer' = "armed"
  /\ promise' = Pending
  /\ output' = ""
  /\ errorOutput' = ""
  /\ events' = <<>>

\* child.stdout 'data'
StdoutData(data) ==
  /\ child.state = "running"
  /\ Len(output) + Len(errorOutput) < MaxChunks
  /\ output' = output \o data
  /\ UNCHANGED <<promise, child, timer, errorOutput, events>>

\* child.stderr 'data'
StderrData(data) ==
  /\ child.state = "running"
  /\ Len(output) + Len(errorOutput) < MaxChunks
  /\ errorOutput' = errorOutput \o data
  /\ UNCHANGED <<promise, child, timer, output, events>>

\* The result the 'close' listener builds.
CloseResult(code) ==
  LET success == code = "0"
  IN ExecutionResult(
       success,
       output \o (IF errorOutput # "" THEN "\nSTDERR:\n" \o errorOutput ELSE ""),
       IF success THEN Absent
       ELSE IF errorOutput # "" THEN errorOutput
       ELSE "Process exited with code " \o code)

\* child 'close': the process has ended (or could not be spawned) and its
\* streams are closed.
ChildClose(code) ==
  /\ child.state \in {"running", "failed"}
  /\ child' = [child EXCEPT !.state = "closed"]
  /\ promise' = Resolve(promise, CloseResult(code))
  /\ events' = Append(events, Resolved("close", CloseResult(code)))
  /\ UNCHANGED <<timer, output, errorOutput>>

\* The result the 'error' listener builds.
ErrorResult(message) == ExecutionResult(FALSE, output \o errorOutput, message)

\* child 'error': the process could not be spawned.  The event is also let
\* happen after the timer has expired.
ChildError(message) ==
  /\ child.state = "running"
  /\ child' = [child EXCEPT !.state = "failed"]
  /\ promise' = Resolve(promise, ErrorResult(message))
  /\ events' = Append(events, Resolved("error", ErrorResult(message)))
  /\ UNCHANGED <<timer, output, errorOutput>>

\* The result the timer's callback builds.
TimeoutResult == ExecutionResult(FALSE, output \o errorOutput, TimeoutError)

\* child.kill(): the call is made on the child whatever its state (kills);
\* the signal is sent, and killed is set, when there is a process to send it
\* to.
Kill(c) ==
  IF c.state = "running"
  THEN [c EXCEPT !.killed = TRUE, !.kills = @ + 1, !.signals = @ + 1]
  ELSE [c EXCEPT !.kills = @ + 1]

\* The timer set by executeCommand expires.
TimerExpires ==
  /\ timer = "armed"
  /\ timer' = "fired"
  /\ IF ~child.killed
     THEN /\ child' = Kill(child)
          /\ promise' = Resolve(promise, TimeoutResult)
          /\ events' = Append(events, Resolved("timeout", TimeoutResult))
     ELSE UNCHANGED <<child, promise, events>>
  /\ UNCHANGED <<output, errorOutput>>

NextCommand ==
  /\ \/ \E command \in Commands, projectPath \in ProjectPaths :
          ExecuteCommand(command, projectPath)
     \/ \E data \in Chunks : StdoutData(data)
     \/ \E data \in Chunks : StderrData(data)
     \/ \E code \in ExitCodes : ChildClose(code)
     \/ \E message \in ErrorMessages : ChildError(message)
     \/ TimerExpires
  /\ UNCHANGED <<engineVars, registryVars, concurrentVars, serverVars,
                 buildVars, driveVars>>

SpecCommand == Init /\ [][NextCommand]_vars

(***************************************************************************)
(* The android_release_agent tool called with command 'android:release':   *)
(* the handler's call of AndroidReleaseAgent.buildAndroidRelease, followed *)
(* from one awaited command to the next.                                   *)
(***************************************************************************)
\* The values of the runGradleClean argument: absent or one of the enum.
GradleCleanOptions == {Absent, "yes", "no", "auto"}
\* Faulty variant: only an explicit 'no' skips the clean step.
SkipClean_onlyNo(runGradleClean) == runGradleClean = "no"
\* const skipClean = runGradleClean !== 'yes'
SkipClean(runGradleClean) == runGradleClean # "yes"

\* path.join(a, b)
PathJoin(a, b) == a \o "/" \o b
ProjectRoot == "/app"
AndroidPath == PathJoin(ProjectRoot, "android")
AndroidAppPath == PathJoin(AndroidPath, "app")
BuildFolderPath == PathJoin(AndroidAppPath, "build")
ApkPath == PathJoin(BuildFolderPath, "outputs/apk/release/app-release.apk")
\* The files and folders a project may have, each with the folder it is in
\* (Absent for those in the project root).
ProjectFiles ==
  {AndroidPath, AndroidAppPath, BuildFolderPath, ApkPath,
   PathJoin(AndroidAppPath, "src"), PathJoin(AndroidPath, "build"),
   PathJoin(ProjectRoot, "build")}
\* p is the path dir or lies under it.
Under(p, dir) ==
  p = dir \/ (Len(p) > Len(dir) /\ SubSeq(p, 1, Len(dir) + 1) = dir \o "/")
\* The states of the project's folder: a path exists only inside an existing
\* folder.
FileSystems ==
  {F \in SUBSET ProjectFiles :
     /\ (F \cap {AndroidAppPath, PathJoin(AndroidPath, "build")}) # {} =>
          AndroidPath \in F
     /\ (F \cap {BuildFolderPath, PathJoin(AndroidAppPath, "src")}) # {} =>
          AndroidAppPath \in F
     /\ ApkPath \in F => BuildFolderPath \in F}

\* Faulty variant: every folder named 'build' of the project is removed.
Remove_everyBuild(F, cwd, name) ==
  {p \in F : \A d \in ProjectFiles :
     (Len(d) >= Len(name) /\ SubSeq(d, Len(d) - Len(name) + 1, Len(d)) = name)
       => ~Under(p, d)}
\* `rm -rf name` run in cwd: the files left.
Remove(F, cwd, name) == {p \in F : ~Under(p, PathJoin(cwd, name))}

\* The text processCommand puts first in the answer of a command that
\* succeeded (after a check-mark sign), and looks for in buildAndroidRelease.
SuccessMarker == "Command Executed Successfully"
\* What a command writes to its standard output and error.
CommandOutputs == {"", "done", "echo Command Executed Successfully"}
\* The ExecutionResult executeCommand resolves to.
CommandResults ==
  {ExecutionResult(TRUE, o, Absent) : o \in CommandOutputs}
  \cup {ExecutionResult(FALSE, o, "Process exited with code 1") : o \in CommandOutputs}
\* processCommand: the text made of the result of executeCommand.
ProcessCommandText(command, targetPath, result) ==
  IF result.success
  THEN "**" \o SuccessMarker \o "** Command: " \o command
       \o " Project Path: " \o targetPath \o " Output: " \o result.output
  ELSE "**Command Failed** Command: " \o command
       \o " Project Path: " \o targetPath \o " Error Details: "
       \o (IF Falsy(result.error) THEN "Unknown error" ELSE result.error)
       \o " Full Output: " \o result.output
\* String.prototype.includes
Includes(text, part) ==
  \E i \in 1..(Len(text) - Len(part) + 1) :
    SubSeq(text, i, i + Len(part) - 1) = part
\* text.includes(SuccessMarker)
Succeeded(text) == Includes(text, SuccessMarker)

\* Entries of steps: a step started, or ended with the success flag of its
\* command (of the check, for the steps that run no command).
StepStarted(step, cwd) ==
  [event |-> "start", step |-> step, cwd |-> cwd, success |-> FALSE]
StepEnded(step, cwd, success) ==
  [event |-> "end", step |-> step, cwd |-> cwd, success |-> success]
AssembleCommand ==
  "./gradlew assembleRelease --stacktrace -PreactNativeArchitectures=arm64-v8a"

BuildReturns(text, log) ==
  /\ buildPc' = "done"
  /\ buildResult' = text
  /\ steps' = log

\* Step 5 of buildAndroidRelease is started.
StartAssemble(log) ==
  /\ buildPc' = "assembling"
  /\ steps' = Append(log, StepStarted(AssembleCommand, AndroidPath))
  /\ UNCHANGED buildResult

\* Step 4 of buildAndroidRelease, up to its await.
StartClean(log) ==
  IF buildInput.skipClean
  THEN StartAssemble(log)
  ELSE /\ buildPc' = "cleaning"
       /\ steps' = Append(log, StepStarted("./gradlew clean", AndroidPath))
       /\ UNCHANGED buildResult

\* buildAndroidRelease after deleteAppBuildFolder has returned deleted.
AfterDeletion(deleted, log) ==
  IF ~deleted
  THEN BuildReturns("Failed to delete build folder", log)
  ELSE StartClean(log)

\* The handler of android_release_agent with command 'android:release', and
\* buildAndroidRelease up to its first await.
BuildAndroidRelease(runGradleClean, F) ==
  /\ buildPc = "idle"
  /\ buildInput' = [runGradleClean |-> runGradleClean, projectPath |-> ProjectRoot,
                    skipClean |-> SkipClean(runGradleClean), files |-> F]
  /\ files' = F
  /\ LET log == <<StepEnded("android folder check", AndroidPath, AndroidPath \in F)>>
     IN IF AndroidPath \notin F
        THEN BuildReturns("Android folder not found", log)
        ELSE /\ buildPc' = "yarn"
             /\ steps' = Append(log, StepStarted("yarn install", ProjectRoot))
             /\ UNCHANGED buildResult

\* 'yarn install' has settled: step 2 ends, and deleteAppBuildFolder runs up
\* to its await or, when there is nothing to delete, to its end.
YarnSettles(result) ==
  /\ buildPc = "yarn"
  /\ UNCHANGED <<buildInput, files>>
  /\ LET log == Append(steps, StepEnded("yarn install", ProjectRoot, result.success))
         begun == Append(log, StepStarted("delete build folder", AndroidAppPath))
     IN IF ~Succeeded(ProcessCommandText("yarn install", ProjectRoot, result))
        THEN BuildReturns("Yarn Install Failed", log)
        ELSE IF AndroidPath \notin files \/ AndroidAppPath \notin files
        THEN AfterDeletion(FALSE, Append(begun,
               StepEnded("delete build folder", AndroidAppPath, FALSE)))
        ELSE IF BuildFolderPath \notin files
        THEN AfterDeletion(TRUE, Append(begun,
               StepEnded("delete build folder", AndroidAppPath, TRUE)))
        ELSE /\ buildPc' = "deleting"
             /\ steps' = Append(begun, StepStarted("rm -rf build", AndroidAppPath))
             /\ UNCHANGED buildResult

\* 'rm -rf build' has settled: removed tells whether it removed the folder.
\* deleteAppBuildFolder returns and buildAndroidRelease goes on to its next
\* await.
RmSettles(result, removed) ==
  /\ buildPc = "deleting"
  /\ result.success => removed
  /\ files' = IF removed THEN Remove(files, AndroidAppPath, "build") ELSE files
  /\ UNCHANGED buildInput
  /\ LET deleted == result.success /\ BuildFolderPath \notin files'
         log == Append(Append(steps,
                  StepEnded("rm -rf build", AndroidAppPath, result.success)),
                  StepEnded("delete build folder", AndroidAppPath, deleted))
     IN AfterDeletion(deleted, log)

\* './gradlew clean' has settled.
CleanSettles(result) ==
  /\ buildPc = "cleaning"
  /\ UNCHANGED <<buildInput, files>>
  /\ StartAssemble(Append(steps,
       StepEnded("./gradlew clean", AndroidPath, result.success)))

\* The assembleRelease command has settled, having written the build folder
\* and the APK or not; buildAndroidRelease returns its report.
AssembleSettles(result, written) ==
  /\ buildPc = "assembling"
  /\ written \in {{}, {BuildFolderPath}, {BuildFolderPath, ApkPath}}
  /\ files' = files \cup written
  /\ UNCHANGED buildInput
  /\ LET log == Append(steps, StepEnded(AssembleCommand, AndroidPath, result.success))
     IN IF ApkPath \in files'
        THEN BuildReturns("Android Release Build Completed Successfully", log)
        ELSE IF Succeeded(ProcessCommandText(AssembleCommand, AndroidPath, result))
        THEN BuildReturns("Build Completed But APK Not Found", log)
        ELSE BuildReturns("Android Release Build Failed", log)

NextBuild ==
  /\ \/ \E runGradleClean \in GradleCleanOptions, F \in FileSystems :
          BuildAndroidRelease(runGradleClean, F)
     \/ \E result \in CommandResults : YarnSettles(result)
     \/ \E result \in CommandResults, removed \in BOOLEAN : RmSettles(result, removed)
     \/ \E result \in CommandResults : CleanSettles(result)
     \/ \E result \in CommandResults, written \in SUBSET ProjectFiles :
          AssembleSettles(result, written)
  /\ UNCHANGED <<engineVars, registryVars, concurrentVars, serverVars,
                 commandVars, driveVars>>

SpecBuild == Init /\ [][NextBuild]_vars

(***************************************************************************)
(* The google_drive_upload tool: the handler's call of                     *)
(* GoogleDriveAgent.uploadFile, followed from one awaited request to the   *)
(* next.                                                                   *)
(***************************************************************************)
\* The folderId argument of the tool: absent, empty or a folder's ID.
FolderIdArguments == {Absent, "", "folderOfArgument"}
\* process.env.GOOGLE_DRIVE_FOLDER_ID: unset, empty or a folder's ID.
FolderIdEnvironment == {Absent, "", "folderOfEnvironment"}
\* The folders of the Drive.
DriveFolders == {"folderOfArgument", "folderOfEnvironment"}
NoFolderIdMessage ==
  "No folder ID provided. Set GOOGLE_DRIVE_FOLDER_ID environment variable or pass folderId parameter. See GOOGLE_DRIVE_SETUP.md for details."
\* The messages of the errors the requests to Drive fail with.
DriveErrors ==
  {"The user's Drive storage quota has been exceeded",
   "Insufficient permission for this file", "socket hang up"}

\* process.env.GOOGLE_DRIVE_FOLDER_ID || folderId
SharedFolderId(env, folderId) == IF Falsy(env) THEN folderId ELSE env

\* The catch block of uploadFile: the text returned for a caught error.
UploadCatch(errorMessage) ==
  IF Includes(errorMessage, "storage quota")
  THEN "Storage Quota Error: Use Google Workspace Shared Drives for service accounts. See GOOGLE_DRIVE_SETUP.md for setup instructions."
  ELSE IF Includes(errorMessage, "permission")
  THEN "Permission Error: Ensure the service account has Editor access to the folder."
  ELSE "Error uploading file to Google Drive: " \o errorMessage

UploadReturns(text) ==
  /\ drivePc' = "done"
  /\ driveReply' = text

\* A request sent to Drive, with the folder it names (Absent when it names
\* none).
DriveRequest(method, folder) == [method |-> method, folder |-> folder]

\* The handler of google_drive_upload and uploadFile up to its first await:
\* the file is looked for, the folder is chosen and files.list is sent.
UploadFile(fileExists, large, folderId, env, inDrive) ==
  /\ drivePc = "idle"
  /\ driveCall' = [fileExists |-> fileExists, large |-> large,
                   folderId |-> folderId, env |-> env]
  /\ driveFolders' = inDrive
  /\ IF ~fileExists
     THEN /\ UploadReturns(UploadCatch("File not found: /tmp/app-release.apk"))
          /\ UNCHANGED <<sharedFolderId, driveRequests>>
     ELSE /\ sharedFolderId' = SharedFolderId(env, folderId)
          /\ IF Falsy(sharedFolderId')
             THEN /\ UploadReturns(UploadCatch(NoFolderIdMessage))
                  /\ UNCHANGED driveRequests
             ELSE /\ drivePc' = "finding"
                  /\ driveRequests' =
                       <<DriveRequest("files.list", sharedFolderId')>>
                  /\ UNCHANGED driveReply

\* files.list has settled (failed tells that it threw): findExistingFile
\* returns the ID of a file of the name in the folder, or null (here Absent,
\* falsy as well), and
\* simpleUpload or resumableUpload sends files.update or files.create.
FindSettles(failed) ==
  /\ drivePc = "finding"
  /\ drivePc' = "uploading"
  /\ LET existingFileId ==
           IF ~failed /\ sharedFolderId \in driveFolders
           THEN "file in " \o sharedFolderId ELSE Absent
     IN driveRequests' =
          Append(driveRequests,
            IF ~Falsy(existingFileId)
            THEN DriveRequest("files.update", Absent)
            ELSE DriveRequest("files.create", sharedFolderId))
  /\ UNCHANGED <<driveCall, sharedFolderId, driveFolders, driveReply>>

\* The upload request has failed with an error: uploadFile catches it.
UploadFails(errorMessage) ==
  /\ drivePc = "uploading"
  /\ UploadReturns(UploadCatch(errorMessage))
  /\ UNCHANGED <<driveCall, sharedFolderId, driveRequests, driveFolders>>

\* The upload request has succeeded: Drive holds the file in the folder of
\* the request, and permissions.create is sent.
UploadSucceeds ==
  /\ drivePc = "uploading"
  /\ drivePc' = "sharing"
  /\ LET sent == driveRequests[Len(driveRequests)]
     IN driveFolders' =
          IF sent.method = "files.create"
          THEN driveFolders \cup {sent.folder} ELSE driveFolders
  /\ driveRequests' = Append(driveRequests, DriveRequest("permissions.create", Absent))
  /\ UNCHANGED <<driveCall, sharedFolderId, driveReply>>

\* permissions.create has settled; its failure is caught and only logged.
ShareSettles(failed) ==
  /\ drivePc = "sharing"
  /\ UploadReturns("File Uploaded Successfully to Google Drive")
  /\ UNCHANGED <<driveCall, sharedFolderId, driveRequests, driveFolders>>

NextDrive ==
  /\ \/ \E fileExists \in BOOLEAN, large \in BOOLEAN,
          folderId \in FolderIdArguments, env \in FolderIdEnvironment,
          inDrive \in SUBSET DriveFolders :
          UploadFile(fileExists, large, folderId, env, inDrive)
     \/ \E failed \in BOOLEAN : FindSettles(failed)
     \/ \E errorMessage \in DriveErrors : UploadFails(errorMessage)
     \/ UploadSucceeds
     \/ \E failed \in BOOLEAN : ShareSettles(failed)
  /\ UNCHANGED <<engineVars, registryVars, concurrentVars, serverVars,
                 commandVars, buildVars>>

SpecDrive == Init /\ [][NextDrive]_vars

(***************************************************************************)
(* The batch workflows: a workflow built by one of the factories for a     *)
(* list of items and run by executeWorkflow.                               *)
(***************************************************************************)
\* `${index}` of an index of the list.
IndexString(i) ==
  CASE i = 0 -> "0" [] i = 1 -> "1" [] i = 2 -> "2" [] i = 3 -> "3"
    [] i = 4 -> "4" [] OTHER -> "5"

\* The factories: the prefix of their node ids, the type of their nodes and
\* the credentials they give to each node.
BatchFactories ==
  {[name |-> "createGoogleDriveBatchUploadWorkflow",
    prefix |-> "google-drive-upload-node-", type |-> "googleDrive",
    credentials |-> [k \in {"googleDriveApi"} |-> "accessToken"]],
   [name |-> "createGoogleChatBatchMessageWorkflow",
    prefix |-> "google-chat-message-node-", type |-> "googleChat",
    credentials |-> [k \in {"googleChatServiceAccount"} |-> "./service.json"]],
   [name |-> "createGoogleChatThreadedMessageWorkflow",
    prefix |-> "google-chat-threaded-node-", type |-> "googleChat",
    credentials |-> [k \in {"googleChatServiceAccount"} |-> "./service.json"]]}

\* items.map((item, index) => ({id: `${prefix}${index}`, type, credentials}))
BatchNodes(factory, n) ==
  [i \in 1..n |-> [id |-> factory.prefix \o IndexString(i - 1),
                   type |-> factory.type,
                   credentials |-> factory.credentials]]

\* nodes.forEach((node) => { connections[node.id] = []; })
BatchConnections(nodes) ==
  [id \in {nodes[i].id : i \in 1..Len(nodes)} |-> <<>>]

\* The WorkflowDefinition a factory returns for n items.
BatchWorkflow(factory, n) ==
  LET nodes == BatchNodes(factory, n)
  IN [nodes |-> nodes, connections |-> BatchConnections(nodes)]

\* The node classes shipped for the types of the batch workflows.
BatchClasses == [googleDrive |-> "GoogleDriveNode", googleChat |-> "GoogleChatNode"]

\* A caller builds a batch workflow and runs it.
ExecuteBatchWorkflow(factory, n, input) ==
  ExecuteWorkflow(BatchWorkflow(factory, n), input)

NextBatch ==
  /\ \/ \E type \in DOMAIN BatchClasses : RegisterNode(type, BatchClasses[type])
     \/ \E factory \in BatchFactories, n \in 0..MaxItems, input \in InputDatas :
          ExecuteBatchWorkflow(factory, n, input)
     \/ NodeCompletes
  /\ UNCHANGED <<registryVars, concurrentVars, serverVars, commandVars,
                 buildVars, driveVars>>

SpecBatch == Init /\ [][NextBatch]_vars

(***************************************************************************)
(* Properties.                                                             *)
(***************************************************************************)
Started == pc # "idle"
WellFormed == workflow.connections # Malformed
Returned == pc = "done" /\ outcome = "returned"
DeclaredIds == {workflow.nodes[i].id : i \in 1..Len(workflow.nodes)}
\* The ids that occur as a target in some connection list.
Targets ==
  UNION {{workflow.connections[k][i] : i \in 1..Len(workflow.connections[k])} :
         k \in DOMAIN workflow.connections}
\* Position i of workflow.nodes holds the first node whose id is not in T.
IsFirstFree(T, i) ==
  /\ workflow.nodes[i].id \notin T
  /\ \A j \in 1..(i - 1) : workflow.nodes[j].id \in T
\* s occurs in t as a contiguous substring.
Contains(t, s) ==
  \E i \in 1..(Len(t) - Len(s) + 1) : SubSeq(t, i, i + Len(s) - 1) = s
NoStartNodeMessage == "No start node found in workflow"
ConnectionsOf(id) == workflow.connections[id]
\* The node whose execute settled last.
LastSettled == IF pc = "executing" THEN executed[Len(executed) - 1]
               ELSE executed[Len(executed)]
NodeSucceeded == lastResult.kind = "result" /\ lastResult.success
NodeFailed == lastResult.kind = "result" /\ ~lastResult.success
\* The workflow is the chain A -> B -> C.
IsChain ==
  /\ WellFormed
  /\ Len(workflow.nodes) = 3
  /\ workflow.connections["A"] = <<"B">>
  /\ workflow.connections["B"] = <<"C">>
  /\ workflow.connections["C"] = <<>>

\* C1: a run starts at the first node in declaration order whose id is no
\* target of any connection list: the first node instantiated or executed is
\* that node, and a run of a workflow that has such a node does not end with
\* the no-start-node error.
C1_StartsAtFirstUnreferenced ==
  (Started /\ WellFormed) =>
    LET T == Targets
    IN /\ executed # <<>> =>
            \E i \in 1..Len(workflow.nodes) :
              workflow.nodes[i].id = executed[1] /\ IsFirstFree(T, i)
       /\ instantiated # <<>> =>
            \E i \in 1..Len(workflow.nodes) :
              workflow.nodes[i].id = instantiated[1] /\ IsFirstFree(T, i)
       /\ (DeclaredIds \ T # {} /\ pc = "done") =>
            execution.error # NoStartNodeMessage
\* C1 witness: a finished run whose start node is not the first declared node
\* and whose workflow has two unreferenced nodes.
C1_Witness ==
  /\ Returned /\ WellFormed
  /\ Len(executed) >= 1
  /\ executed[1] = "B"
  /\ "C" \in DeclaredIds \ Targets

\* C2: when every node id is a connection target, or there is no node, no
\* node is instantiated or executed and the run returns status 'error' with
\* the no-start-node message.
C2_NoStartNode ==
  (Started /\ WellFormed /\ DeclaredIds \subseteq Targets) =>
    /\ Returned
    /\ executed = <<>> /\ instantiated = <<>>
    /\ execution.status = "error"
    /\ execution.error = NoStartNodeMessage
\* C2 witness: a single node with a self-loop has been run.
C2_Witness ==
  /\ Returned /\ WellFormed
  /\ Len(workflow.nodes) = 1
  /\ workflow.connections["A"] = <<"A">>
  /\ execution.status = "error"

\* C3 as stated: in the chain A -> B -> C, A receives the run's inputData,
\* each later node receives exactly the data member of its predecessor's
\* result, and the returned data is exactly the data member of C's result.
C3_ExactThreading ==
  (Started /\ IsChain) =>
    /\ (pc = "executing" /\ Len(executed) = 1) => nodeInput = inputData
    /\ (pc = "executing" /\ Len(executed) > 1) => nodeInput = lastResult.data
    /\ (Returned /\ execution.status = "success") =>
         execution.data = lastResult.data
\* C3 amended: the same, where a result without a data member counts as the
\* empty bag.
C3_ThreadingOrEmpty ==
  (Started /\ IsChain) =>
    /\ (pc = "executing" /\ Len(executed) = 1) => nodeInput = inputData
    /\ (pc = "executing" /\ Len(executed) > 1) =>
         /\ NodeSucceeded
         /\ nodeInput = IF lastResult.data = NoData THEN EmptyBag
                        ELSE lastResult.data
    /\ (Returned /\ execution.status = "success") =>
         /\ executed = <<"A", "B", "C">>
         /\ execution.data = IF lastResult.data = NoData THEN EmptyBag
                             ELSE lastResult.data
\* C3 witness: the chain ran to the end, C received a non-empty bag from B and
\* returned a different one.
C3_Witness ==
  /\ IsChain /\ Returned
  /\ execution.status = "success"
  /\ executed = <<"A", "B", "C">>
  /\ nodeInput # EmptyBag
  /\ execution.data # nodeInput

\* C4: once a node has returned success:false the run has ended with status
\* 'error', and the failing node is the last node instantiated and executed.
C4_FailureStopsChain ==
  NodeFailed =>
    /\ Returned
    /\ execution.status = "error"
    /\ executed[Len(executed)] = currentNode.id
    /\ instantiated[Len(instantiated)] = currentNode.id
    /\ Len(instantiated) = Len(executed)
\* C4 witness: a node that has a declared, existing successor failed.
C4_Witness ==
  /\ NodeFailed /\ Returned
  /\ getNextNodes(workflow, currentNode.id) # <<>>

\* C5: when a node returns {success:false, error:e}, the returned error
\* string states the node failure and contains e; an absent e is rendered as
\* the text "undefined".
C5_ErrorCarriesNodeError ==
  NodeFailed =>
    /\ Returned
    /\ Contains(execution.error, "Node execution failed")
    /\ Contains(execution.error,
                IF lastResult.error = Absent THEN "undefined" ELSE lastResult.error)
\* C5 witness: the second node of a run failed with the error "boom".
C5_Witness ==
  /\ NodeFailed /\ Returned
  /\ lastResult.error = "boom"
  /\ Len(executed) = 2

\* C6 as stated: after a node with several connection entries the node
\* executed next is the first entry of its list, and no other entry of its
\* list is executed in the run.
C6_OnlyFirstEntry ==
  (Started /\ WellFormed) =>
    \A i \in 1..Len(executed) :
      LET conns == ConnectionsOf(executed[i])
      IN Len(conns) > 1 =>
           /\ i < Len(executed) => executed[i + 1] = conns[1]
           /\ \A j \in 2..Len(conns) :
                conns[j] # conns[1] => \A m \in 1..Len(executed) : executed[m] # conns[j]
\* C6 amended: the node executed after a node is the first entry of its
\* connection list that names a declared node; no later entry is followed.
C6_OnlyFirstResolved ==
  (Started /\ WellFormed) =>
    \A i \in 1..(Len(executed) - 1) :
      LET conns == ConnectionsOf(executed[i])
      IN \E j \in 1..Len(conns) :
           /\ conns[j] = executed[i + 1]
           /\ conns[j] \in DeclaredIds
           /\ \A m \in 1..(j - 1) : conns[m] \notin DeclaredIds
\* C6 witness: a node with two different declared, existing successors was
\* followed by another node.
C6_Witness ==
  /\ WellFormed /\ Returned
  /\ Len(executed) >= 2
  /\ Len(ConnectionsOf(executed[1])) = 2
  /\ ConnectionsOf(executed[1])[1] # ConnectionsOf(executed[1])[2]
  /\ Range(ConnectionsOf(executed[1])) \subseteq DeclaredIds

\* C7 as stated: when a node with zero connections has succeeded, the run has
\* ended with status 'success' and execution.data is exactly the data member
\* of that node's result; a run goes on past a node only if it has connections.
C7_EndsWithOutput ==
  (Started /\ WellFormed /\ executed # <<>>) =>
    /\ (pc = "done" /\ NodeSucceeded /\ ConnectionsOf(currentNode.id) = <<>>) =>
         /\ Returned
         /\ execution.status = "success"
         /\ execution.data = lastResult.data
    /\ (pc = "executing" /\ Len(executed) > 1) =>
         ConnectionsOf(LastSettled) # <<>>
\* C7 amended: the same, where a result without a data member yields the
\* empty bag.
C7_EndsWithOutputOrEmpty ==
  (Started /\ WellFormed /\ executed # <<>>) =>
    /\ (pc = "done" /\ NodeSucceeded /\ ConnectionsOf(currentNode.id) = <<>>) =>
         /\ Returned
         /\ execution.status = "success"
         /\ execution.data = IF lastResult.data = NoData THEN EmptyBag
                             ELSE lastResult.data
    /\ (pc = "executing" /\ Len(executed) > 1) =>
         ConnectionsOf(LastSettled) # <<>>
\* C7 witness: a single node without connections returned its non-empty input
\* unchanged.
C7_Witness ==
  /\ WellFormed /\ Returned
  /\ Len(workflow.nodes) = 1
  /\ ConnectionsOf("A") = <<>>
  /\ NodeSucceeded
  /\ inputData # EmptyBag
  /\ lastResult.data = inputData
  /\ execution.data = inputData

\* C8: a call of executeWorkflow that has ended has returned an execution
\* record; whenever anything failed (malformed connections, no start node,
\* unknown type or throwing constructor, a node that failed or threw) the
\* record has status 'error' and a string as its error.
C8_NeverRawFault ==
  pc = "done" =>
    /\ outcome = "returned"
    /\ execution.status \in {"success", "error"}
    /\ (\/ ~WellFormed
        \/ DeclaredIds \subseteq Targets
        \/ Len(instantiated) # Len(executed)
        \/ executed = <<>>
        \/ lastResult.kind = "throw"
        \/ NodeFailed) =>
         /\ execution.status = "error"
         /\ execution.error # Absent
         /\ Len(execution.error) > 0
\* C8 witness: a node's execute threw a value that is no Error.
C8_Witness ==
  /\ pc = "done"
  /\ lastResult.kind = "throw"
  /\ ~lastResult.thrown.isError
  /\ execution.error = "42"

\* The object literal a shipped node merges with its input.
OwnOutput(class, env) ==
  CASE class = "JiraNode" ->
         (IF env.operation = "searchTickets" THEN JiraSearchOutput
          ELSE JiraTicketOutput)
    [] class = "AndroidNode" -> AndroidOutput
    [] class = "GoogleDriveNode" ->
         GoogleDriveOutput(GoogleDriveAgentUploadFile(env.response))
    [] OTHER -> GoogleChatOutput

\* C9: in the result of a shipped node, every input key that is also one of
\* the node's own output keys carries the node's own value.
C9_OwnKeysWin ==
  (pc = "done" /\ nodeInstance \in ShippedClasses /\ NodeSucceeded) =>
    \A k \in (DOMAIN nodeInput) \cap (DOMAIN OwnOutput(nodeInstance, nodeEnv)) :
      lastResult.data[k] = OwnOutput(nodeInstance, nodeEnv)[k]

\* C10: every built-in node type resolves in the registry of an engine, from
\* its construction on.
C10_BuiltinsRegistered == \A t \in BuiltinTypes : t \in DOMAIN nodeRegistry

\* The constructor registered last for type t among the first n calls of
\* registerNode, "none" when there is none.
LastRegistered(t, n) ==
  LET calls == {i \in 1..n : registrations[i].type = t}
  IN IF calls = {} THEN "none"
     ELSE registrations[CHOOSE i \in calls : \A j \in calls : i >= j].nodeClass

\* C11: registerNode never refuses a type that is registered; after any
\* sequence of registrations the registry holds, for every type, the
\* constructor registered last; a lookup yields that constructor, and the
\* lookup of a type never registered throws the unknown-node-type error.
C11_LastRegistrationWins ==
  /\ \A t \in NodeTypes :
       LET last == LastRegistered(t, Len(registrations))
       IN IF last = "none" THEN t \notin DOMAIN nodeRegistry
          ELSE t \in DOMAIN nodeRegistry /\ nodeRegistry[t] = last
  /\ Len(registrations) <= MaxRegistrations =>
       \A t \in NodeTypes, c \in RegistryClasses : ENABLED Register(t, c)
  /\ resolved.kind # "none" =>
       /\ resolved.class = LastRegistered(resolved.type, resolved.at)
       /\ resolved.class = "none" =>
            /\ resolved.kind = "throw"
            /\ resolved.thrown = Error("Unknown node type: " \o resolved.type)
\* C11 witness: a type was registered twice with different constructors and
\* then looked up; another type, never registered, was looked up before.
C11_Witness ==
  /\ Len(registrations) = 3
  /\ registrations[2].type = "jira" /\ registrations[2].nodeClass = "CustomNode"
  /\ registrations[3].type = "jira" /\ registrations[3].nodeClass = "AndroidNode"
  /\ resolved.type = "jira" /\ resolved.at = 3
  /\ resolved.kind = "instance" /\ resolved.class = "AndroidNode"

\* The node whose execute settled last lacks the credential its class requires.
LacksRequired(node, class) ==
  /\ RequiredCredential(class) # Absent
  /\ \/ node.credentials = NoCredentials
     \/ RequiredCredential(class) \notin DOMAIN node.credentials

\* C12: the instance of a node holds exactly the credentials bag of its own
\* node definition, the empty bag when the definition has none; when a node
\* of a credential-requiring class lacks the required credential, its execute
\* returns success:false with the missing-credential error and has made no
\* external call, the run has ended with status 'error', and no node runs
\* after it.
C12_OwnCredentialsOnly ==
  executed # <<>> =>
    /\ FindNode(workflow, currentNode.id) = currentNode
    /\ nodeCredentials = IF currentNode.credentials = NoCredentials
                         THEN EmptyCredentials ELSE currentNode.credentials
    /\ DOMAIN nodeCredentials \subseteq CredentialNames
    /\ LacksRequired(currentNode, nodeInstance) =>
         /\ pc = "executing" => ~ENABLED (NodeCompletes /\ pc' = "executing")
         /\ pc = "done" =>
              /\ lastResult.kind = "result"
              /\ ~lastResult.success
              /\ lastResult.error =
                   "Required credential '" \o RequiredCredential(nodeInstance)
                     \o "' is missing"
              /\ lastResult.calls = <<>>
              /\ Returned
              /\ execution.status = "error"
              /\ Contains(execution.error, lastResult.error)
              /\ executed[Len(executed)] = currentNode.id
\* C12 witness: node A carried the Jira credential and succeeded; node B, of
\* type jira as well, has no credentials member and failed on the missing
\* credential.
C12_Witness ==
  /\ Returned
  /\ executed = <<"A", "B">>
  /\ workflow.nodes[1].type = "jira" /\ workflow.nodes[2].type = "jira"
  /\ "jiraApi" \in DOMAIN workflow.nodes[1].credentials
  /\ workflow.nodes[2].credentials = NoCredentials
  /\ nodeCredentials = EmptyCredentials
  /\ lastResult.error = "Required credential 'jiraApi' is missing"
  /\ execution.status = "error"

\* The operations a shipped node class implements; Absent selects its default.
KnownOperations(class) ==
  CASE class = "JiraNode" -> {Absent, "getTicket", "searchTickets"}
    [] class = "GoogleDriveNode" -> {Absent, "uploadFile"}
    [] class = "GoogleChatNode" -> {Absent, "sendMessage"}
    [] OTHER -> NodeOperations
\* Something the node of class needs is missing, or what it calls has failed:
\* its required credential, its required parameter, its operation, the
\* construction of its agent, the external call.
InternalFailure(class, credentials, env) ==
  \/ /\ RequiredCredential(class) # Absent
     /\ Falsy(getCredential(credentials, RequiredCredential(class)))
  \/ ~env.param
  \/ class = "GoogleChatNode" /\ ~env.text
  \/ env.operation \notin KnownOperations(class)
  \/ class \in {"GoogleDriveNode", "GoogleChatNode"} /\ ~env.agent
  \/ env.response # "ok"

\* C13: execute of a shipped node always resolves to a result, it never
\* throws; and whenever something failed inside it, the result is
\* success:false with an error string.
C13_FailuresReturned ==
  (pc = "done" /\ nodeInstance \in ShippedClasses) =>
    /\ lastResult.kind = "result"
    /\ InternalFailure(nodeInstance, nodeCredentials, nodeEnv) =>
         /\ ~lastResult.success
         /\ lastResult.error # Absent
         /\ Len(lastResult.error) > 0

\* The first-successor path of the workflow, from its definition alone.
StartId ==
  LET T == Targets
      free == {i \in 1..Len(workflow.nodes) : workflow.nodes[i].id \notin T}
  IN IF free = {} THEN "<null>"
     ELSE workflow.nodes[CHOOSE i \in free : \A j \in free : i <= j].id
\* The first entry of id's connection list that names a declared node.
Successor(id) ==
  LET conns == workflow.connections[id]
      hits == {j \in 1..Len(conns) : conns[j] \in DeclaredIds}
  IN IF hits = {} THEN "<null>"
     ELSE conns[CHOOSE j \in hits : \A m \in hits : j <= m]
RECURSIVE PathFrom(_, _)
\* The first n nodes of the path from id.
PathFrom(id, n) ==
  IF id = "<null>" \/ n = 0 THEN <<>>
  ELSE <<id>> \o PathFrom(Successor(id), n - 1)
\* The path ends: it cannot visit more nodes than there are without a repeat.
Acyclic ==
  Len(PathFrom(StartId, Len(workflow.nodes) + 1)) <= Len(workflow.nodes)
FirstSuccessorPath == PathFrom(StartId, Len(workflow.nodes))
NodeThrew == lastResult.kind = "throw"

\* C14: in a run over an acyclic first-successor path no node is executed or
\* instantiated twice; in any run, a node that returned success:false or
\* threw is the last node executed, the run has ended, and no execute can
\* follow.
C14_NoRetry ==
  (Started /\ WellFormed) =>
    /\ Acyclic =>
         /\ \A i, j \in 1..Len(executed) : i # j => executed[i] # executed[j]
         /\ \A i, j \in 1..Len(instantiated) :
              i # j => instantiated[i] # instantiated[j]
    /\ (NodeFailed \/ NodeThrew) =>
         /\ pc = "done"
         /\ executed[Len(executed)] = currentNode.id
         /\ ~ENABLED NodeCompletes
\* C14 witness: the third node of an acyclic chain threw.
C14_Witness ==
  /\ Started /\ WellFormed /\ Acyclic
  /\ executed = <<"A", "B", "C">>
  /\ NodeThrew
  /\ pc = "done"

\* C15: at most one execute call of the run is in flight, that of the current
\* node while the run waits for it and none otherwise; and whenever the
\* execute of a node after the first has been started, the execute before it
\* has settled with success.
C15_StrictlySequential ==
  /\ Len(inFlight) <= 1
  /\ pc = "executing" => inFlight = <<currentNode.id>>
  /\ pc \in {"idle", "done"} => inFlight = <<>>
  /\ (pc = "executing" /\ Len(executed) > 1) =>
       /\ NodeSucceeded
       /\ Successor(executed[Len(executed) - 1]) = currentNode.id
\* C15 witness: the third node of a run is executing.
C15_Witness ==
  /\ pc = "executing"
  /\ executed = <<"A", "B", "C">>
  /\ inFlight = <<"C">>

\* The states of an execution record, and its steps.
StatusStates ==
  /\ execution.status \in {"none", "running", "success", "error"}
  /\ pc = "idle" => execution = NoExecution
  /\ pc = "executing" =>
       /\ execution.status = "running"
       /\ execution.endTime = Absent
       /\ execution.error = Absent
  /\ pc = "done" =>
       /\ outcome = "returned"
       /\ execution.status \in {"success", "error"}
       /\ execution.endTime = "set"
       /\ execution.status = "error" <=> execution.error # Absent
StatusSteps ==
  /\ execution.status = "none" => execution'.status \in {"none", "running", "error"}
  /\ execution.status = "running" =>
       execution'.status \in {"running", "success", "error"}
  /\ execution.status \in {"success", "error"} => execution' = execution
\* C17: the record of a run has status 'running' while the run goes on, then
\* takes one step to 'success' or 'error' and is not changed again; the record
\* executeWorkflow returns has status 'success' or 'error' and its endTime
\* set; no record has status 'cancelled'.
C17_OneStatusTransition == [](StatusStates) /\ [][StatusSteps]_vars
\* C17 witness: a run of two nodes has returned a 'success' record.
C17_Witness ==
  /\ Returned
  /\ Len(executed) = 2
  /\ execution.status = "success"
  /\ execution.endTime = "set"

\* C18: a run follows the first-successor path node by node.  On a path that
\* enters a cycle a run that has ended has ended in 'error' (a node failed,
\* threw or could not be instantiated): while its nodes succeed it does not
\* end.  On an acyclic path a waiting run can always take its next step, it
\* executes no more nodes than the path has, and when it returns 'success' it
\* has executed each node of the path once.
C18_NoCycleDetection ==
  (Started /\ WellFormed) =>
    /\ executed = PathFrom(StartId, Len(executed))
    /\ ~Acyclic =>
         (pc = "done" =>
            /\ execution.status = "error"
            /\ \/ NodeFailed
               \/ NodeThrew
               \/ Contains(execution.error, "Unknown node type: ")
               \/ execution.error = "constructor failed")
    /\ Acyclic =>
         /\ pc = "executing" => ENABLED NodeCompletes
         /\ Len(executed) <= Len(FirstSuccessorPath)
         /\ (pc = "done" /\ execution.status = "success") =>
              executed = FirstSuccessorPath
\* C18 witness: a run is in the self-loop of node B and still going on.
C18_Witness ==
  /\ WellFormed /\ ~Acyclic
  /\ pc = "executing"
  /\ executed = <<"A", "B", "B">>
  /\ NodeSucceeded

\* The record the call with locals c returns when it runs alone and is given
\* what c was given.
Alone(c) == RunAlone(c.workflow, c.inputData, c.settled)
\* c has the record of a call that runs alone: the returned record once it
\* has ended, the running record up to then.
SameAsAlone(c) ==
  /\ c.pc = "done" =>
       /\ c.outcome = "returned"
       /\ c.execution.status \in {"success", "error"}
       /\ c.execution = Alone(c)
  /\ c.pc = "executing" =>
       /\ c.execution = NewExecution(c.inputData)
       /\ c.execution = Alone(c)
  /\ c.pc = "idle" => c.execution = NoExecution
\* A call has been made.
CallMade == pc # "idle" \/ parked.pc # "idle"

AgentOf(name) ==
  CASE name \in {"jira_agent", "jira_advanced_search"} -> "jiraAgent"
    [] name = "android_release_agent" -> "androidReleaseAgent"
    [] name = "google_drive_upload" -> "googleDriveAgent"
    [] OTHER -> "googleChatAgent"
Listed == request.name \in Range(ListedTools)
\* The call of request has been dispatched: one method of its tool's agent
\* has been called, and nothing else.
Dispatched == Len(agentCalls) = 1 /\ agentCalls[1].agent = AgentOf(request.name)
\* A call of an unlisted tool throws the unknown-tool error, no agent called.
UnknownToolFails ==
  (serverPc # "idle" /\ ~Listed) =>
    /\ serverPc = "done"
    /\ reply = HandlerThrows(Error("Unknown tool: " \o request.name))
    /\ agentCalls = <<>>

\* C19 as stated: a call of an unlisted tool throws the unknown-tool error and
\* calls no agent, and every call of a listed tool is dispatched to the tool's
\* agent and answered with a content block.
C19_ListedToolsAnswered ==
  /\ UnknownToolFails
  /\ (serverPc # "idle" /\ Listed) =>
       /\ Dispatched
       /\ serverPc = "done" => reply.kind = "content"

\* C19: a call of an unlisted tool throws the unknown-tool error and calls no
\* agent, and every call of a listed tool that carries an argument object is
\* dispatched to the tool's agent (exactly one method call) and answered with
\* a content block: the text the agent returned, or the tool's error prefix
\* and the message of what the agent threw.
C19_ListedToolsWithArgumentsAnswered ==
  /\ UnknownToolFails
  /\ (serverPc # "idle" /\ Listed /\ request.arguments.present) =>
       /\ Dispatched
       /\ serverPc = "done" =>
            /\ reply.kind = "content"
            /\ \E settlement \in AgentOutcomes :
                 reply.text = IF settlement.kind = "return" THEN settlement.text
                              ELSE ErrorPrefix(request.name)
                                   \o ErrorMessage(settlement.thrown)

\* C19 witness: the Android agent threw while building the release and the call
\* was answered with a content block that carries the error.
C19_Witness ==
  /\ serverPc = "done"
  /\ request.name = "android_release_agent"
  /\ request.arguments.present
  /\ agentCalls[1].method = "buildAndroidRelease"
  /\ reply = ContentBlock("Error processing Android command: network down")

\* The promise is settled exactly when a resolving event has happened, with
\* the result the first of them passed; once the timer has expired it is
\* settled; and the child runs unsignalled only while the timer is armed.
FirstEventDecides ==
  /\ promise.state = "pending" <=> events = <<>>
  /\ events # <<>> => promise = Fulfilled(events[1].result)
  /\ timer = "fired" => promise.state = "fulfilled"
  /\ (child.state = "running" /\ timer = "armed") => promise.state = "pending"
  /\ child.killed =>
       \E i \in 1..Len(events) :
         /\ events[i].event = "timeout"
         /\ \A j \in 1..(i - 1) : events[j].event \notin {"close", "error"}
\* A settled promise keeps its result.
ResultKept == promise.state = "fulfilled" => promise' = promise
\* The timer expires while the child runs: the child is signalled and the
\* promise is settled with the timeout failure.
ExpiryKills ==
  (timer = "armed" /\ timer' = "fired" /\ child.state = "running") =>
    /\ child'.killed /\ child'.signals = child.signals + 1
    /\ promise' = Fulfilled(ExecutionResult(FALSE, output \o errorOutput,
                                            TimeoutError))

\* C20: the promise of executeCommand is settled by the first of process
\* close, process error and timer expiry, with the result that event builds;
\* later events leave it as it is; the expiry of the timer while the child
\* runs kills the child and settles the promise with the timeout failure; and
\* the promise is settled once the timer has expired.
C20_TimerRace ==
  /\ [](FirstEventDecides)
  /\ [][ResultKept /\ ExpiryKills]_vars

\* C20 witness: the timer expired first, the child was killed and then closed
\* with no exit code, and the result is still the timeout failure, with the
\* output collected up to the expiry.
C20_Witness ==
  /\ Len(events) = 2
  /\ events[1].event = "timeout"
  /\ events[2].event = "close"
  /\ events[2].result.error = "Process exited with code null"
  /\ child.killed
  /\ promise.value.error = TimeoutError
  /\ promise.value.output = "x"

\* The type of the declared node id.
TypeOf(id) == FindNode(workflow, id).type
\* The first-successor path as far as a run is followed.
FollowedPath == PathFrom(StartId, MaxSteps + 1)
\* The position on the path of its first node of an unregistered type, 0 when
\* there is none.
FirstUnregistered ==
  LET U == {i \in 1..Len(FollowedPath) :
              TypeOf(FollowedPath[i]) \notin DOMAIN nodeRegistry}
  IN IF U = {} THEN 0 ELSE CHOOSE i \in U : \A j \in U : i <= j

\* C25: when the k-th node of the first-successor path is its first node of an
\* unregistered type, no node from the k-th on is ever executed; a run whose
\* first k-1 nodes have succeeded has ended with status 'error' and the
\* unknown-node-type message naming that type; and a run that ends with that
\* message has executed exactly the k-1 nodes before that node.
C25_LazyTypeResolution ==
  (Started /\ WellFormed) =>
    LET k == FirstUnregistered
    IN /\ k > 0 =>
            /\ Len(executed) <= k - 1
            /\ (pc = "done" /\ Len(executed) = k - 1 /\ (k = 1 \/ NodeSucceeded)) =>
                 /\ execution.status = "error"
                 /\ execution.error = "Unknown node type: " \o TypeOf(FollowedPath[k])
       /\ (pc = "done" /\ Contains(execution.error, "Unknown node type: ")) =>
            /\ k > 0
            /\ execution.status = "error"
            /\ executed = SubSeq(FollowedPath, 1, k - 1)
            /\ instantiated = executed
\* C25 witness: the third node of the path has an unregistered type, the two
\* nodes before it were executed and the run ended with the message.
C25_Witness ==
  /\ Returned /\ WellFormed
  /\ FirstUnregistered = 3
  /\ executed = <<"A", "B">>
  /\ execution.error = "Unknown node type: android"

\* Every connection of the declared node id names an undeclared node.
AllMissing(id) ==
  /\ ConnectionsOf(id) # <<>>
  /\ \A j \in 1..Len(ConnectionsOf(id)) : ConnectionsOf(id)[j] \notin DeclaredIds

C27_ErrorKeepsInput ==
  pc = "done" =>
    /\ Returned
    /\ execution.status \in {"success", "error"}
    /\ execution.status = "error" =>
         /\ execution.error # Absent
         /\ execution.data = inputData
    /\ execution.status = "success" =>
         /\ execution.error = Absent
         /\ NodeSucceeded
         /\ execution.data = IF lastResult.data = NoData THEN EmptyBag
                             ELSE lastResult.data
\* C27 witness: the first node succeeded and handed on data other than the
\* run's input, the second node failed, and the record holds the input.
C27_Witness ==
  /\ Returned /\ NodeFailed
  /\ Len(executed) = 2
  /\ nodeInput # inputData
  /\ execution.status = "error"
  /\ execution.data = inputData

\* C29: child.kill() is called only by an expiry of the timer that finds the
\* child process running: when it has been called, the timer's expiry came
\* before any close or error of the process.
C29_KillOnlyWhileRunning ==
  child.kills > 0 =>
    \E i \in 1..Len(events) :
      /\ events[i].event = "timeout"
      /\ \A j \in 1..(i - 1) : events[j].event \notin {"close", "error"}

(***************************************************************************)
(* Properties of buildAndroidRelease.                                      *)
(***************************************************************************)
\* The places of steps where the step has the event ("start" or "end").
StepIndices(event, step) ==
  {i \in 1..Len(steps) : steps[i].event = event /\ steps[i].step = step}
HasStarted(step) == StepIndices("start", step) # {}
HasEnded(step) == StepIndices("end", step) # {}
\* The step ended, with the success flag, before the other step started.
EndedBefore(step, success, other) ==
  \A j \in StepIndices("start", other) :
    \E i \in StepIndices("end", step) : i < j /\ steps[i].success = success

\* C21: for an android:release build the gradlew clean step is executed if
\* and only if runGradleClean is 'yes': the clean command is started only
\* with 'yes', and a build that has come to assembleRelease has run the clean
\* command to its end before with 'yes', and has not run it with 'no', 'auto'
\* or an absent value.
C21_CleanIffYes ==
  /\ HasStarted("./gradlew clean") => buildInput.runGradleClean = "yes"
  /\ buildPc = "cleaning" => buildInput.runGradleClean = "yes"
  /\ HasStarted(AssembleCommand) =>
       IF buildInput.runGradleClean = "yes"
       THEN \E i \in StepIndices("end", "./gradlew clean") :
              \A j \in StepIndices("start", AssembleCommand) : i < j
       ELSE ~HasStarted("./gradlew clean")
\* C21 witness: a build asked for with runGradleClean 'yes' has run the clean
\* command and has returned after assembleRelease.
C21_Witness ==
  /\ buildPc = "done"
  /\ buildInput.runGradleClean = "yes"
  /\ HasEnded("./gradlew clean")
  /\ HasEnded(AssembleCommand)
\* A build asked for with 'auto' has returned after assembleRelease.
CleanSkipped ==
  /\ buildPc = "done"
  /\ buildInput.runGradleClean = "auto"
  /\ HasEnded(AssembleCommand)

StepsInOrder ==
  /\ \A i \in 1..Len(steps) :
       steps[i].event = "start" =>
         \A j \in 1..(i - 1) :
           steps[j].event = "start" =>
             \/ \E k \in (j + 1)..(i - 1) :
                  steps[k].event = "end" /\ steps[k].step = steps[j].step
             \/ steps[j].step = "delete build folder" /\ steps[i].step = "rm -rf build"
  /\ HasStarted("yarn install") => steps[1] = StepEnded("android folder check", AndroidPath, TRUE)
  /\ EndedBefore("yarn install", TRUE, "delete build folder")
     \/ EndedBefore("yarn install", FALSE, "delete build folder")
  /\ \A j \in StepIndices("start", AssembleCommand) :
       \A i \in StepIndices("start", "./gradlew clean") :
         /\ i < j
         /\ \E k \in StepIndices("end", "./gradlew clean") : i < k /\ k < j
\* A gradlew clean that failed was followed by assembleRelease.
CleanFailedBuildWentOn ==
  /\ \E i \in StepIndices("end", "./gradlew clean") : ~steps[i].success
  /\ HasStarted(AssembleCommand)

\* C28: buildAndroidRelease performs its steps in the order android-folder
\* check, yarn install, build folder deletion, optional gradlew clean,
\* assembleRelease, each started after the one before has ended, and
\* assembleRelease is started only if the android folder exists, yarn install
\* succeeded and the deletion step succeeded.
C28_StepOrder ==
  /\ StepsInOrder
  /\ HasStarted(AssembleCommand) =>
       /\ AndroidPath \in buildInput.files
       /\ EndedBefore("yarn install", TRUE, AssembleCommand)
       /\ EndedBefore("delete build folder", TRUE, AssembleCommand)

(***************************************************************************)
(* Properties of uploadFile.                                               *)
(***************************************************************************)
\* The folders named by the requests the call has sent.
RequestedFolders ==
  {driveRequests[i].folder : i \in 1..Len(driveRequests)} \ {Absent}
NoFolderIdReply == Includes(driveReply, "No folder ID provided")

\* C23: when the folderId argument is specified the file is uploaded to that
\* folder, the folder of GOOGLE_DRIVE_FOLDER_ID is used only if folderId is
\* not specified, and the call fails with the no-folder-ID error only when
\* neither is set.
C23_FolderIdPreferred ==
  /\ ~Falsy(driveCall.folderId) => RequestedFolders \subseteq {driveCall.folderId}
  /\ (driveCall.env \in RequestedFolders) => Falsy(driveCall.folderId)
  /\ NoFolderIdReply => (Falsy(driveCall.folderId) /\ Falsy(driveCall.env))
\* The folder of the argument is used when the variable is not set, and the
\* no-folder-ID error is returned only when neither is set.
FolderIdFallback ==
  /\ (drivePc # "idle" /\ driveCall.fileExists /\ Falsy(driveCall.env)
        /\ ~Falsy(driveCall.folderId)) =>
       (RequestedFolders = {driveCall.folderId} /\ ~NoFolderIdReply)
  /\ NoFolderIdReply <=>
       (drivePc = "done" /\ driveCall.fileExists
          /\ Falsy(driveCall.folderId) /\ Falsy(driveCall.env))
\* Both are set and the file has been created in the folder of the variable.
EnvironmentFolderUsed ==
  /\ drivePc = "done"
  /\ driveCall.folderId = "folderOfArgument"
  /\ driveCall.env = "folderOfEnvironment"
  /\ driveFolders = {"folderOfEnvironment"}

(***************************************************************************)
(* Properties of the batch workflows.                                      *)
(***************************************************************************)
\* The ids of the nodes of the workflow that is run.
WorkflowNodeIds == {workflow.nodes[i].id : i \in 1..Len(workflow.nodes)}

\* C24: a run of a batch workflow that has returned with status 'success' has
\* executed all of its nodes, one for every item.
C24_BatchRunsEveryNode ==
  (pc = "done" /\ execution.status = "success") =>
    Range(executed) = WorkflowNodeIds
\* A run of a batch workflow executes the node of its first item and no
\* other.
BatchRunsFirstNode ==
  /\ Len(executed) <= 1
  /\ executed # <<>> => executed[1] = workflow.nodes[1].id
  /\ (pc = "done" /\ execution.status = "success") => Len(executed) = 1
\* A batch of messages for three items has returned with status 'success'.
BatchOfThreeSucceeded ==
  /\ pc = "done"
  /\ execution.status = "success"
  /\ Len(workflow.nodes) = 3
  /\ workflow.nodes[1].type = "googleChat"

====
